---- MODULE Spec2Model ----
(***************************************************************************)
(* A model of the collection engine of systemd_exporter                    *)
(* (src/systemd/systemd.go with the cgroup stat readers of                 *)
(* src/unnamed/part_000).                                                  *)
(*                                                                         *)
(* One collection cycle is Collector.Collect -> Collector.collect: open a  *)
(* bus connection, list the units, filter them, start one goroutine per    *)
(* filtered unit, wait for all of them, close the connection.  Each        *)
(* goroutine runs Collector.collectUnit, one action per collector call.    *)
(*                                                                         *)
(* Representation choices                                                  *)
(*  - A unit name is a sequence of symbols; "." is the dot and every other *)
(*    symbol stands for a non-empty dot-free run of characters.            *)
(*  - A regular expression is a small syntax tree matched symbol-wise.     *)
(*  - A value read from the bus is a variant [type, s, n, b]: the dynamic  *)
(*    type and the payload field that type uses.                           *)
(*  - An unsigned 64-bit word is modelled with Uint64Bits bits; only its   *)
(*    largest value (math.MaxUint64) is distinguished by the code.         *)
(*  - A float64 sample value is an exact fraction [num, den].              *)
(***************************************************************************)
EXTENDS Integers, Naturals, Sequences, FiniteSets, TLC

VARIABLES
    cfg,        \* the Collector's configuration: feature flags and compiled patterns
    system,     \* environment: the units the init system manages (what ListUnits returns)
    pc,         \* position of Collect/collect
    conn,       \* the bus connection of this cycle: "nil", "open", "closed"
    closes,     \* number of conn.Close() calls in this cycle
    err,        \* the error collect() returns ("" is nil)
    units,      \* the filtered units of this cycle
    spawned,    \* number of goroutines started by the loop of collect()
    wg,         \* the sync.WaitGroup counter
    task,       \* task[i]: the goroutine of units[i]
    sink,       \* the samples the latest step sent on ch (none: <<>>)
    last,       \* the latest collector call: its task, environment and outcome
    errorLog,   \* number of c.logger.Error calls made by Collect
    proc        \* the process: "running", or "crashed" after an unrecovered panic

vars == <<cfg, system, pc, conn, closes, err, units, spawned, wg, task, sink, last,
          errorLog, proc>>

----------------------------------------------------------------------------
(* Bounds of the model *)

\* largest number of units the init system manages in the concurrent specification
MaxUnits == 2

\* longest unit list given to filterUnits in the filter specification
MaxFilterUnits == 3

\* width, in bits, of the model's stand-in for an unsigned 64-bit word
Uint64Bits == 4

\* the longest cpu.stat the parser specification reads, in lines
MaxCPUStatLines == 4

\* the longest memory.stat the parser specification reads, in lines
MaxMemStatLines == 2

----------------------------------------------------------------------------
(* Strings, words and float64 values *)

\* math.MaxUint64 at the model's word width
MaxUint64 == 2^Uint64Bits - 1

\* the uint64 values the bus may report
Uint64Values == {0, 1, MaxUint64}

\* the uint32 values the bus may report
Uint32Values == {0, 7}

\* float64(n)
Float64(n) == [num |-> n, den |-> 1]

\* x / d for a float64 x and a positive constant d
Float64Div(x, d) == [num |-> x.num, den |-> x.den * d]

Range(s) == {s[i] : i \in 1..Len(s)}

----------------------------------------------------------------------------
(* Unit names and unit descriptors (dbus.UnitStatus) *)

Dot == "."

\* strings.Split(name, "."): the maximal dot-free pieces of a name
RECURSIVE Split(_)
Split(name) ==
    IF \A i \in 1..Len(name) : name[i] # Dot
    THEN <<name>>
    ELSE LET k == CHOOSE i \in 1..Len(name) :
                    name[i] = Dot /\ \A j \in 1..(i - 1) : name[j] # Dot
         IN  <<SubSeq(name, 1, k - 1)>> \o Split(SubSeq(name, k + 1, Len(name)))

\* the string a piece of a name stands for (a piece is empty or one symbol)
PieceString(piece) == IF piece = <<>> THEN "" ELSE piece[1]

parseUnitType(unit) ==
    LET t == Split(unit.Name) IN PieceString(t[Len(t)])

\* strings.Title on a unit type
Title(s) ==
    CASE s = "service" -> "Service"
      [] s = "mount"   -> "Mount"
      [] s = "socket"  -> "Socket"
      [] s = "swap"    -> "Swap"
      [] s = "slice"   -> "Slice"
      [] s = "timer"   -> "Timer"
      [] s = "target"  -> "Target"
      [] s = "device"  -> "Device"
      [] OTHER         -> s

parseUnitTypeInterface(unit) == Title(parseUnitType(unit))

Unit(name, load, active) == [Name |-> name, LoadState |-> load, ActiveState |-> active]

unitStatesName == <<"active", "activating", "deactivating", "inactive", "failed">>

----------------------------------------------------------------------------
(* Regular expressions (regexp.Regexp), matched symbol-wise *)

AnyChar == [op |-> "any"]
Lit(c) == [op |-> "lit", c |-> c]
Plus(r) == [op |-> "plus", r |-> r]
Cat(l, r) == [op |-> "cat", l |-> l, r |-> r]

\* the whole of s is matched by re
RECURSIVE FullMatch(_, _)
FullMatch(re, s) ==
    CASE re.op = "any"  -> Len(s) = 1
      [] re.op = "lit"  -> s = <<re.c>>
      [] re.op = "cat"  -> \E k \in 0..Len(s) :
                              /\ FullMatch(re.l, SubSeq(s, 1, k))
                              /\ FullMatch(re.r, SubSeq(s, k + 1, Len(s)))
      [] re.op = "plus" -> \E k \in 1..Len(s) :
                              /\ FullMatch(re.r, SubSeq(s, 1, k))
                              /\ (k = Len(s) \/ FullMatch(re, SubSeq(s, k + 1, Len(s))))

\* a pattern is a regular expression and whether it was compiled as ^(?:re)$
Pattern(re, anchored) == [re |-> re, anchored |-> anchored]

\* Regexp.MatchString: some substring matches, the whole string when anchored
MatchString(pattern, s) ==
    IF pattern.anchored
    THEN FullMatch(pattern.re, s)
    ELSE \E i \in 1..(Len(s) + 1) : \E j \in (i - 1)..Len(s) :
            FullMatch(pattern.re, SubSeq(s, i, j))

\* regexp.MustCompile(fmt.Sprintf("^(?:%s)$", flag)) in NewCollector
CompileAnchored(re) == Pattern(re, TRUE)

----------------------------------------------------------------------------
(* filterUnits *)

\* a filter condition without the load-state test
PassesIgnoringLoadState(unit, whitelistPattern, blacklistPattern) ==
    /\ MatchString(whitelistPattern, unit.Name)
    /\ ~MatchString(blacklistPattern, unit.Name)

\* the condition of the if statement in filterUnits
Passes(unit, whitelistPattern, blacklistPattern) ==
    /\ MatchString(whitelistPattern, unit.Name)
    /\ ~MatchString(blacklistPattern, unit.Name)
    /\ unit.LoadState = "loaded"

\* a filterUnits that puts each passing unit in front of those after it
RECURSIVE filterUnitsReversed(_, _, _)
filterUnitsReversed(us, whitelistPattern, blacklistPattern) ==
    IF us = <<>> THEN <<>>
    ELSE LET rest == filterUnitsReversed(Tail(us), whitelistPattern, blacklistPattern)
         IN  IF Passes(Head(us), whitelistPattern, blacklistPattern)
             THEN Append(rest, Head(us))
             ELSE rest

\* filterUnits: the loop appends each passing unit to filtered, in input order
RECURSIVE filterUnits(_, _, _)
filterUnits(us, whitelistPattern, blacklistPattern) ==
    IF us = <<>> THEN <<>>
    ELSE LET rest == filterUnits(Tail(us), whitelistPattern, blacklistPattern)
         IN  IF Passes(Head(us), whitelistPattern, blacklistPattern)
             THEN <<Head(us)>> \o rest
             ELSE rest

----------------------------------------------------------------------------
(* Go errors *)

\* an error value: its dynamic type, the Op of an *os.PathError, and its text
Error(type, op, msg) == [type |-> type, op |-> op, msg |-> msg]

Nil == Error("nil", "", <<>>)

\* errors.Errorf: a new error of pkg/errors
Errorf(msg) == Error("fundamental", "", msg)

\* errors.Wrapf / errors.Wrap: the cause wrapped in a new error of pkg/errors
Wrapf(cause, msg) == Error("withStack", "", msg \o cause.msg)

\* &os.PathError{Op: op}
PathError(op) == Error("PathError", op, <<op>>)

\* the test `perr, ok := err.(*os.PathError); ok && perr.Op == "open"`
IsOpenPathError(e) == e.type = "PathError" /\ e.op = "open"

----------------------------------------------------------------------------
(* Values read from the bus (dbus.Variant) and the result of a read *)

Str(s)  == [type |-> "string", s |-> s,  n |-> 0, b |-> FALSE]
U32(n)  == [type |-> "uint32", s |-> "", n |-> n, b |-> FALSE]
U64(n)  == [type |-> "uint64", s |-> "", n |-> n, b |-> FALSE]
Bool(b) == [type |-> "bool",   s |-> "", n |-> 0, b |-> b]

\* a property read: the variant, or an error
Ok(v) == [err |-> FALSE, val |-> v]
Fail  == [err |-> TRUE,  val |-> Str("")]

StringResults == {Fail, Ok(U32(0)), Ok(Str("simple"))}
Uint32Results == {Fail, Ok(Str("x"))} \cup {Ok(U32(n)) : n \in Uint32Values}
Uint64Results == {Fail, Ok(Str("x"))} \cup {Ok(U64(n)) : n \in Uint64Values}
BoolResults   == {Fail, Ok(Str("x")), Ok(Bool(TRUE)), Ok(Bool(FALSE))}

\* conn.GetUnitTypeProperty(unit.Name, iface, prop) against the bus view of one unit
GetUnitTypeProperty(bus, iface, prop) == bus[<<iface, prop>>]

\* conn.GetUnitProperty(unit.Name, prop)
GetUnitProperty(bus, prop) == bus[<<"Unit", prop>>]

\* a bus view with no property (a collector that reads nothing)
NoBus == <<>>

----------------------------------------------------------------------------
(* Samples and the outcome of one collector call *)

\* prometheus.MustNewConstMetric(desc, _, value, labels...)
Sample(desc, value, labels) == [desc |-> desc, labels |-> labels, value |-> value]

\* what a collector call did: the samples it sent on ch, in order, the error it
\* returned, and whether it panicked instead of returning
Outcome(samples, e) == [samples |-> samples, err |-> e, panic |-> FALSE]
Panicked(samples)   == [samples |-> samples, err |-> Nil, panic |-> TRUE]

errGetPropertyMsg(prop) == <<"couldn't get unit's property", prop>>
errConvertUint64PropertyMsg(prop) == <<"couldn't convert unit's property to uint64", prop>>
errConvertUint32PropertyMsg(prop) == <<"couldn't convert unit's property to uint32", prop>>
errConvertStringPropertyMsg(prop) == <<"couldn't convert unit's property to string", prop>>
errControlGroupReadMsg(what) == <<"failed to read from control group", what>>

----------------------------------------------------------------------------
(* The collectors that read nothing or one property *)

collectUnitState(unit) ==
    Outcome([i \in 1..Len(unitStatesName) |->
                Sample("unitState",
                       IF unitStatesName[i] = unit.ActiveState THEN Float64(1) ELSE Float64(0),
                       <<unit.Name, parseUnitType(unit), unitStatesName[i]>>)],
            Nil)

collectMountMetainfo(unit, bus) ==
    LET serviceTypeProperty == GetUnitTypeProperty(bus, "Mount", "Type") IN
    IF serviceTypeProperty.err
    THEN Outcome(<<>>, Wrapf(Error("dbus", "", <<>>), errGetPropertyMsg("Type")))
    ELSE IF serviceTypeProperty.val.type # "string"
    THEN Outcome(<<>>, Errorf(errConvertStringPropertyMsg("Type")))
    ELSE Outcome(<<Sample("unitInfo", Float64(1),
                          <<unit.Name, parseUnitType(unit), serviceTypeProperty.val.s, "">>)>>,
                 Nil)

collectServiceMetainfo(unit, bus) ==
    LET serviceTypeProperty == GetUnitTypeProperty(bus, "Service", "Type") IN
    IF serviceTypeProperty.err
    THEN Outcome(<<>>, Wrapf(Error("dbus", "", <<>>), errGetPropertyMsg("Type")))
    ELSE IF serviceTypeProperty.val.type # "string"
    THEN Outcome(<<>>, Errorf(errConvertStringPropertyMsg("Type")))
    ELSE Outcome(<<Sample("unitInfo", Float64(1),
                          <<unit.Name, parseUnitType(unit), "", serviceTypeProperty.val.s>>)>>,
                 Nil)

collectServiceRestartCount(unit, bus) ==
    LET restartsCount == GetUnitTypeProperty(bus, "Service", "NRestarts") IN
    IF restartsCount.err
    THEN Outcome(<<>>, Wrapf(Error("dbus", "", <<>>), errGetPropertyMsg("NRestarts")))
    ELSE IF restartsCount.val.type # "uint32"
    THEN Outcome(<<>>, Errorf(errConvertUint32PropertyMsg("NRestarts")))
    ELSE Outcome(<<Sample("nRestartsDesc", Float64(restartsCount.val.n), <<unit.Name>>)>>, Nil)

\* a start-time collector that reads the timestamp in every active state
collectServiceStartTimeMetricsAlwaysReads(unit, bus) ==
    LET timestampValue == GetUnitProperty(bus, "ActiveEnterTimestamp") IN
    IF timestampValue.err
    THEN Outcome(<<>>, Wrapf(Error("dbus", "", <<>>),
                             errGetPropertyMsg("ActiveEnterTimestamp")))
    ELSE IF timestampValue.val.type # "uint64"
    THEN Outcome(<<>>, Errorf(errConvertUint64PropertyMsg("ActiveEnterTimestamp")))
    ELSE Outcome(<<Sample("unitStartTimeDesc",
                          Float64Div(Float64(IF unit.ActiveState = "active"
                                             THEN timestampValue.val.n ELSE 0), 1000000),
                          <<unit.Name, parseUnitType(unit)>>)>>, Nil)

collectServiceStartTimeMetrics(unit, bus) ==
    IF unit.ActiveState = "active"
    THEN LET timestampValue == GetUnitProperty(bus, "ActiveEnterTimestamp") IN
         IF timestampValue.err
         THEN Outcome(<<>>, Wrapf(Error("dbus", "", <<>>),
                                  errGetPropertyMsg("ActiveEnterTimestamp")))
         ELSE IF timestampValue.val.type # "uint64"
         THEN Outcome(<<>>, Errorf(errConvertUint64PropertyMsg("ActiveEnterTimestamp")))
         ELSE Outcome(<<Sample("unitStartTimeDesc",
                               Float64Div(Float64(timestampValue.val.n), 1000000),
                               <<unit.Name, parseUnitType(unit)>>)>>, Nil)
    ELSE Outcome(<<Sample("unitStartTimeDesc", Float64Div(Float64(0), 1000000),
                          <<unit.Name, parseUnitType(unit)>>)>>, Nil)

collectTimerTriggerTime(unit, bus) ==
    LET lastTriggerValue == GetUnitTypeProperty(bus, "Timer", "LastTriggerUSec") IN
    IF lastTriggerValue.err
    THEN Outcome(<<>>, Wrapf(Error("dbus", "", <<>>), errGetPropertyMsg("LastTriggerUSec")))
    ELSE IF lastTriggerValue.val.type # "uint64"
    THEN Outcome(<<>>, Errorf(errConvertUint64PropertyMsg("LastTriggerUSec")))
    ELSE Outcome(<<Sample("timerLastTriggerDesc",
                          Float64Div(Float64(lastTriggerValue.val.n), 1000000),
                          <<unit.Name>>)>>, Nil)

----------------------------------------------------------------------------
(* The collectors that read several properties *)

\* one read of collectSocketConnMetrics followed by its send: the value is
\* asserted to be a uint32 without a check, so another type panics
SocketRead(unit, bus, prop, desc, rest) ==
    LET r == GetUnitTypeProperty(bus, "Socket", prop) IN
    IF r.err
    THEN Outcome(<<>>, Wrapf(Error("dbus", "", <<>>), errGetPropertyMsg(prop)))
    ELSE IF r.val.type # "uint32"
    THEN Panicked(<<>>)
    ELSE [rest EXCEPT !.samples =
             <<Sample(desc, Float64(r.val.n), <<unit.Name>>)>> \o rest.samples]

collectSocketConnMetrics(unit, bus) ==
    SocketRead(unit, bus, "NAccepted", "socketAcceptedConnectionsDesc",
      SocketRead(unit, bus, "NConnections", "socketCurrentConnectionsDesc",
        SocketRead(unit, bus, "NRefused", "socketRefusedConnectionsDesc",
          Outcome(<<>>, Nil))))

\* the second half of collectServiceTasksMetrics: TasksMax
TasksMaxPart(unit, bus) ==
    LET tasksMaxCount == GetUnitTypeProperty(bus, "Service", "TasksMax") IN
    IF tasksMaxCount.err
    THEN Outcome(<<>>, Wrapf(Error("dbus", "", <<>>), errGetPropertyMsg("TasksMax")))
    ELSE IF tasksMaxCount.val.type # "uint64"
    THEN Outcome(<<>>, Errorf(errConvertUint64PropertyMsg("TasksMax")))
    ELSE IF tasksMaxCount.val.n # MaxUint64
    THEN Outcome(<<Sample("unitTasksMaxDesc", Float64(tasksMaxCount.val.n),
                          <<unit.Name, parseUnitType(unit)>>)>>, Nil)
    ELSE Outcome(<<>>, Nil)

\* a task-count collector that returns at a sentinel TasksCurrent
collectServiceTasksMetricsStopAtSentinel(unit, bus) ==
    LET tasksCurrentCount == GetUnitTypeProperty(bus, "Service", "TasksCurrent") IN
    IF tasksCurrentCount.err
    THEN Outcome(<<>>, Wrapf(Error("dbus", "", <<>>), errGetPropertyMsg("TasksCurrent")))
    ELSE IF tasksCurrentCount.val.type # "uint64"
    THEN Outcome(<<>>, Errorf(errConvertUint64PropertyMsg("TasksCurrent")))
    ELSE IF tasksCurrentCount.val.n = MaxUint64
    THEN Outcome(<<>>, Nil)
    ELSE LET rest == TasksMaxPart(unit, bus) IN
         [rest EXCEPT !.samples =
             <<Sample("unitTasksCurrentDesc", Float64(tasksCurrentCount.val.n),
                      <<unit.Name>>)>> \o rest.samples]

collectServiceTasksMetrics(unit, bus) ==
    LET tasksCurrentCount == GetUnitTypeProperty(bus, "Service", "TasksCurrent") IN
    IF tasksCurrentCount.err
    THEN Outcome(<<>>, Wrapf(Error("dbus", "", <<>>), errGetPropertyMsg("TasksCurrent")))
    ELSE IF tasksCurrentCount.val.type # "uint64"
    THEN Outcome(<<>>, Errorf(errConvertUint64PropertyMsg("TasksCurrent")))
    ELSE LET rest == TasksMaxPart(unit, bus) IN
         IF tasksCurrentCount.val.n # MaxUint64
         THEN [rest EXCEPT !.samples =
                  <<Sample("unitTasksCurrentDesc", Float64(tasksCurrentCount.val.n),
                           <<unit.Name>>)>> \o rest.samples]
         ELSE rest

----------------------------------------------------------------------------
(* The process-information subsystem (procfs) as collectServiceProcessMetrics
   uses it: the first call that fails, if any, and the values read *)

\* the calls the collector makes, and "ok" for none failing
ProcStages == {"NewFS", "NewProc", "NewStat", "NewLimits", "FileDescriptorsLen", "ok"}

\* the call named `call` fails in the process view `procfs`
ProcFails(procfs, call) == procfs.fails = call

ProcView(fails) ==
    [fails |-> fails, CPUTime |-> 3, VirtualMemory |-> 4096, ResidentMemory |-> 1024,
     OpenFiles |-> 64, AddressSpace |-> 8192, FileDescriptorsLen |-> 5]

\* a process collector that looks up the process whatever the pid and counts
\* the open files whatever the flag
collectServiceProcessMetricsUnguarded(unit, bus, procfs, enableFDMetrics) ==
    LET mainPID == GetUnitTypeProperty(bus, "Service", "MainPID")
        name    == <<unit.Name>>
        stat    == << Sample("cpuTotalDesc", Float64(procfs.CPUTime), name),
                      Sample("vsize", Float64(procfs.VirtualMemory), name),
                      Sample("rss", Float64(procfs.ResidentMemory), name) >>
        limits  == << Sample("maxFDs", Float64(procfs.OpenFiles), name),
                      Sample("maxVsize", Float64(procfs.AddressSpace), name) >>
        fds     == << Sample("openFDs", Float64(procfs.FileDescriptorsLen), name) >>
    IN
    IF mainPID.err
    THEN Outcome(<<>>, Wrapf(Error("dbus", "", <<>>), errGetPropertyMsg("MainPID")))
    ELSE IF mainPID.val.type # "uint32"
    THEN Outcome(<<>>, Errorf(errConvertUint32PropertyMsg("MainPID")))
    ELSE IF procfs.fails \in {"NewFS", "NewProc", "NewStat"}
    THEN Outcome(<<>>, Error("procfs", "", <<procfs.fails>>))
    ELSE IF ProcFails(procfs, "NewLimits")
    THEN Outcome(stat, Wrapf(Error("procfs", "", <<>>), <<"couldn't get process limits">>))
    ELSE IF ProcFails(procfs, "FileDescriptorsLen")
    THEN Outcome(stat \o limits,
                 Wrapf(Error("procfs", "", <<>>),
                       <<"couldn't get process file descriptor size">>))
    ELSE Outcome(stat \o limits \o fds, Nil)

collectServiceProcessMetrics(unit, bus, procfs, enableFDMetrics) ==
    LET mainPID == GetUnitTypeProperty(bus, "Service", "MainPID")
        name    == <<unit.Name>>
        stat    == << Sample("cpuTotalDesc", Float64(procfs.CPUTime), name),
                      Sample("vsize", Float64(procfs.VirtualMemory), name),
                      Sample("rss", Float64(procfs.ResidentMemory), name) >>
        limits  == << Sample("maxFDs", Float64(procfs.OpenFiles), name),
                      Sample("maxVsize", Float64(procfs.AddressSpace), name) >>
        fds     == << Sample("openFDs", Float64(procfs.FileDescriptorsLen), name) >>
    IN
    IF mainPID.err
    THEN Outcome(<<>>, Wrapf(Error("dbus", "", <<>>), errGetPropertyMsg("MainPID")))
    ELSE IF mainPID.val.type # "uint32"
    THEN Outcome(<<>>, Errorf(errConvertUint32PropertyMsg("MainPID")))
    ELSE IF mainPID.val.n = 0
    THEN Outcome(<<>>, Nil)
    ELSE IF ProcFails(procfs, "NewFS")
    THEN Outcome(<<>>, Error("procfs", "", <<"NewFS">>))
    ELSE IF ProcFails(procfs, "NewProc")
    THEN Outcome(<<>>, Error("procfs", "", <<"NewProc">>))
    ELSE IF ProcFails(procfs, "NewStat")
    THEN Outcome(<<>>, Error("procfs", "", <<"NewStat">>))
    ELSE IF ProcFails(procfs, "NewLimits")
    THEN Outcome(stat, Wrapf(Error("procfs", "", <<>>), <<"couldn't get process limits">>))
    ELSE IF ~enableFDMetrics
    THEN Outcome(stat \o limits, Nil)
    ELSE IF ProcFails(procfs, "FileDescriptorsLen")
    THEN Outcome(stat \o limits,
                 Wrapf(Error("procfs", "", <<>>),
                       <<"couldn't get process file descriptor size">>))
    ELSE Outcome(stat \o limits \o fds, Nil)

----------------------------------------------------------------------------
(* Control-group path resolution *)

\* a *string: nil, or a pointer to a path
NilPath == [present |-> FALSE, path |-> ""]
PathPtr(p) == [present |-> TRUE, path |-> p]

mustGetUnitStringTypeProperty(unitType, propName, defaultVal, bus) ==
    LET prop == GetUnitTypeProperty(bus, unitType, propName) IN
    IF prop.err THEN defaultVal
    ELSE IF prop.val.type # "string" THEN defaultVal
    ELSE prop.val.s

\* a getControlGroup that hands back whatever string the property holds
getControlGroupNoEmptyCheck(unit, bus) ==
    LET unitTypeInterface == parseUnitTypeInterface(unit)
        propCGSubpath == GetUnitTypeProperty(bus, unitTypeInterface, "ControlGroup")
    IN
    IF propCGSubpath.err
    THEN [path |-> NilPath,
          err |-> Wrapf(Error("dbus", "", <<>>), errGetPropertyMsg("ControlGroup"))]
    ELSE IF propCGSubpath.val.type # "string"
    THEN [path |-> NilPath, err |-> Errorf(errConvertStringPropertyMsg("ControlGroup"))]
    ELSE [path |-> PathPtr(propCGSubpath.val.s), err |-> Nil]

\* getControlGroup returns (*string, error)
getControlGroup(unit, bus) ==
    LET unitTypeInterface == parseUnitTypeInterface(unit)
        propCGSubpath == GetUnitTypeProperty(bus, unitTypeInterface, "ControlGroup")
        cgSubpath == propCGSubpath.val.s
        subType == mustGetUnitStringTypeProperty(unitTypeInterface, "Type", "unknown", bus)
        slice == mustGetUnitStringTypeProperty(unitTypeInterface, "Slice", "unknown", bus)
    IN
    IF propCGSubpath.err
    THEN [path |-> NilPath,
          err |-> Wrapf(Error("dbus", "", <<>>), errGetPropertyMsg("ControlGroup"))]
    ELSE IF propCGSubpath.val.type # "string"
    THEN [path |-> NilPath, err |-> Errorf(errConvertStringPropertyMsg("ControlGroup"))]
    ELSE IF cgSubpath = "" /\ unit.ActiveState \in {"inactive", "failed"}
    THEN [path |-> NilPath, err |-> Nil]
    ELSE IF cgSubpath = "" /\ unit.ActiveState = "active"
    THEN [path |-> NilPath,
          err |-> Errorf(<<"got 'no cgroup' from systemd for active unit",
                           unit.ActiveState, subType, slice>>)]
    ELSE IF cgSubpath = ""
    THEN [path |-> NilPath, err |-> Nil]
    ELSE [path |-> PathPtr(cgSubpath), err |-> Nil]

\* a collectUnit that warns of every error of the resolver
ControlGroupErrorAlwaysWarned(unit, bus, e) == e # Nil

\* lines 322-334 of collectUnit: whether the resolver's error is logged as a warning
ControlGroupErrorWarned(unit, bus, e) ==
    IF e = Nil THEN FALSE
    ELSE IF parseUnitType(unit) = "mount" THEN FALSE
    ELSE LET remainAfterExitProperty == GetUnitTypeProperty(bus, "Service", "RemainAfterExit")
         IN  IF /\ ~remainAfterExitProperty.err
                /\ remainAfterExitProperty.val.type = "bool"
                /\ remainAfterExitProperty.val.b
             THEN FALSE
             ELSE TRUE

----------------------------------------------------------------------------
(* The cgroup stat files.  A line of a file is [key, n, valid, val]: its first
   field, its number of fields, whether its second field parses as an unsigned
   64-bit number, and that number.  A file view names the first call of the
   reader that fails ("ok" for none) and the lines read. *)

Line(key, n, valid, val) == [key |-> key, n |-> n, valid |-> valid, val |-> val]

FileView(fails, lines) == [fails |-> fails, lines |-> lines]

ZeroCPUAcct == [TotalMicrosec |-> 0, SystemMicrosec |-> 0, UserMicrosec |-> 0]

\* a scanner loop that takes the total for granted
RECURSIVE ScanCPUAcctTotalOptional(_, _, _)
ScanCPUAcctTotalOptional(lines, i, st) ==
    IF i > Len(lines) THEN [st EXCEPT !.readTotal = (st.err = Nil)]
    ELSE LET l == lines[i] IN
         IF l.n # 2
         THEN [st EXCEPT !.err = Errorf(<<"unable to parse contents of file", "cpu.stat">>)]
         ELSE IF ~l.valid
         THEN [st EXCEPT !.err = Wrapf(Error("NumError", "", <<>>),
                                       <<"unable to parse as uint64", "cpu.stat">>)]
         ELSE ScanCPUAcctTotalOptional(lines, i + 1,
                CASE l.key = "usage_usec" ->
                        [st EXCEPT !.acct.TotalMicrosec = l.val]
                  [] l.key = "user_usec" ->
                        [st EXCEPT !.acct.UserMicrosec = l.val, !.readUser = TRUE]
                  [] l.key = "system_usec" ->
                        [st EXCEPT !.acct.SystemMicrosec = l.val, !.readSystem = TRUE]
                  [] OTHER -> st)

\* the scanner loop of FS.NewCPUAcct over the lines from position i on
RECURSIVE ScanCPUAcct(_, _, _)
ScanCPUAcct(lines, i, st) ==
    IF i > Len(lines) THEN st
    ELSE LET l == lines[i] IN
         IF l.n # 2
         THEN [st EXCEPT !.err = Errorf(<<"unable to parse contents of file", "cpu.stat">>)]
         ELSE IF ~l.valid
         THEN [st EXCEPT !.err = Wrapf(Error("NumError", "", <<>>),
                                       <<"unable to parse as uint64", "cpu.stat">>)]
         ELSE ScanCPUAcct(lines, i + 1,
                CASE l.key = "usage_usec" ->
                        [st EXCEPT !.acct.TotalMicrosec = l.val, !.readTotal = TRUE]
                  [] l.key = "user_usec" ->
                        [st EXCEPT !.acct.UserMicrosec = l.val, !.readUser = TRUE]
                  [] l.key = "system_usec" ->
                        [st EXCEPT !.acct.SystemMicrosec = l.val, !.readSystem = TRUE]
                  [] OTHER -> st)

\* cgroup.NewCPUAcct: (*CPUAcct, error)
NewCPUAcct(file) ==
    IF file.fails = "NewDefaultFS"
    THEN [acct |-> ZeroCPUAcct, err |-> Error("fs", "", <<"NewDefaultFS">>)]
    ELSE IF file.fails = "cgGetPath"
    THEN [acct |-> ZeroCPUAcct,
          err |-> Wrapf(Error("fs", "", <<>>), <<"unable to get cpu controller path">>)]
    ELSE IF file.fails \in {"open", "read"}
    THEN [acct |-> ZeroCPUAcct,
          err |-> Wrapf(PathError(file.fails), <<"unable to read file", "cpu.stat">>)]
    ELSE LET st == ScanCPUAcct(file.lines, 1,
                     [acct |-> ZeroCPUAcct, err |-> Nil, readTotal |-> FALSE,
                      readUser |-> FALSE, readSystem |-> FALSE])
         IN  IF st.err # Nil
             THEN [acct |-> ZeroCPUAcct, err |-> st.err]
             ELSE IF ~(st.readTotal /\ st.readUser /\ st.readSystem)
             THEN [acct |-> ZeroCPUAcct,
                   err |-> Errorf(<<"no / incomplete info extracted from", "cpu.stat">>)]
             ELSE [acct |-> st.acct, err |-> Nil]

collectUnitCPUMetrics(unit, file) ==
    LET r == NewCPUAcct(file) IN
    IF r.err # Nil
    THEN IF IsOpenPathError(r.err)
         THEN Outcome(<<>>, Nil)
         ELSE Outcome(<<>>, Wrapf(r.err, errControlGroupReadMsg("CPU usage")))
    ELSE Outcome(<< Sample("unitCPUTotal",
                           Float64Div(Float64(r.acct.UserMicrosec), 1000000),
                           <<unit.Name, parseUnitType(unit), "user">>),
                    Sample("unitCPUTotal",
                           Float64Div(Float64(r.acct.SystemMicrosec), 1000000),
                           <<unit.Name, parseUnitType(unit), "system">>) >>, Nil)

\* the keys of memory.stat that parseMemStat stores, by the field each one sets
MemStatField(key) ==
    CASE key = "anon"                     -> "AnonBytes"
      [] key = "file"                     -> "FileBytes"
      [] key = "kernel_stack"             -> "KernelStackBytes"
      [] key = "pagetables"               -> "PageTablesBytes"
      [] key = "percpu"                   -> "PerCPUBytes"
      [] key = "sock"                     -> "SockBytes"
      [] key = "shmem"                    -> "ShmemBytes"
      [] key = "file_mapped"              -> "FileMappedBytes"
      [] key = "file_dirty"               -> "FileDirtyBytes"
      [] key = "file_writeback"           -> "FileWritebackBytes"
      [] key = "swapcached"               -> "SwapcachedBytes"
      [] key = "anon_thp"                 -> "AnonTHPBytes"
      [] key = "file_thp"                 -> "FileTHPBytes"
      [] key = "shmem_thp"                -> "ShmemTHPBytes"
      [] key = "inactive_anon"            -> "InactiveAnonBytes"
      [] key = "active_anon"              -> "ActiveAnonBytes"
      [] key = "inactive_file"            -> "InactiveFileBytes"
      [] key = "active_file"              -> "ActiveFileBytes"
      [] key = "unevictable"              -> "UnevictableBytes"
      [] key = "slab_reclaimable"         -> "SlabReclaimableBytes"
      [] key = "slab_unreclaimable"       -> "SlabUnreclaimableBytes"
      [] key = "slab"                     -> "SlabBytes"
      [] key = "workingset_refault_anon"  -> "WorkingsetRefaultAnonBytes"
      [] key = "workingsetRefault_file"   -> "WorkingsetRefaultFileBytes"
      [] key = "workingset_activate_anon" -> "WorkingsetActivateAnonBytes"
      [] key = "workingset_activate_file" -> "WorkingsetActivateFileBytes"
      [] key = "workingset_restore_anon"  -> "WorkingsetRestoreAnonBytes"
      [] key = "workingset_restore_file"  -> "WorkingsetRestoreFileBytes"
      [] key = "workingset_nodereclaim"   -> "WorkingsetNodeReclaimBytes"
      [] key = "pgfault"                  -> "PgFaultBytes"
      [] key = "pgmajfault"               -> "PgMajFaultBytes"
      [] key = "pgrefill"                 -> "PgRefillBytes"
      [] key = "pgscan"                   -> "PgScanBytes"
      [] key = "pgsteal"                  -> "PgStealBytes"
      [] key = "pgactivate"               -> "PgActivateBytes"
      [] key = "pgdeactivate"             -> "PgDeactivateBytes"
      [] key = "pglazyfree"               -> "PgLazyFreeBytes"
      [] key = "pglazyfreed"              -> "PgLazyFreedBytes"
      [] key = "thp_fault_alloc"          -> "THPFaultAllocBytes"
      [] key = "thp_collapse_alloc"       -> "THPCollapseAllocBytes"
      [] OTHER                            -> ""

\* the keys parseMemStat has a case for
MemStatKeys ==
    { "anon", "file", "kernel_stack", "pagetables", "percpu", "sock",
      "shmem", "file_mapped", "file_dirty", "file_writeback", "swapcached",
      "anon_thp", "file_thp", "shmem_thp", "inactive_anon", "active_anon",
      "inactive_file", "active_file", "unevictable", "slab_reclaimable",
      "slab_unreclaimable", "slab", "workingset_refault_anon",
      "workingsetRefault_file", "workingset_activate_anon",
      "workingset_activate_file", "workingset_restore_anon",
      "workingset_restore_file", "workingset_nodereclaim", "pgfault",
      "pgmajfault", "pgrefill", "pgscan", "pgsteal", "pgactivate",
      "pgdeactivate", "pglazyfree", "pglazyfreed", "thp_fault_alloc",
      "thp_collapse_alloc" }

\* the fields of MemStat
MemStatFields == { MemStatField(k) : k \in MemStatKeys }

ZeroMemStat == [f \in MemStatFields |-> 0]

\* a parseMemStat that passes over a line of fewer than two fields
RECURSIVE parseMemStatSkipsShortLines(_, _, _)
parseMemStatSkipsShortLines(lines, i, st) ==
    IF i > Len(lines) THEN st
    ELSE LET l == lines[i] IN
         IF l.n < 2
         THEN parseMemStatSkipsShortLines(lines, i + 1, st)
         ELSE IF ~l.valid
         THEN [st EXCEPT !.err = Error("NumError", "", <<"ParseUint">>)]
         ELSE parseMemStatSkipsShortLines(lines, i + 1,
                IF MemStatField(l.key) = "" THEN st
                ELSE [st EXCEPT !.m[MemStatField(l.key)] = l.val])

\* the scanner loop of parseMemStat over the lines from position i on
RECURSIVE parseMemStat(_, _, _)
parseMemStat(lines, i, st) ==
    IF i > Len(lines) THEN st
    ELSE LET l == lines[i] IN
         IF l.n < 2
         THEN [st EXCEPT !.err = Error("errorString", "", <<"malformed memory.stat line">>)]
         ELSE IF ~l.valid
         THEN [st EXCEPT !.err = Error("NumError", "", <<"ParseUint">>)]
         ELSE parseMemStat(lines, i + 1,
                IF MemStatField(l.key) = "" THEN st
                ELSE [st EXCEPT !.m[MemStatField(l.key)] = l.val])

\* cgroup.NewMemStat: (MemStat, error)
NewMemStat(file) ==
    IF file.fails = "NewDefaultFS"
    THEN [m |-> ZeroMemStat, err |-> Error("fs", "", <<"NewDefaultFS">>)]
    ELSE IF file.fails = "cgGetPath"
    THEN [m |-> ZeroMemStat,
          err |-> Wrapf(Error("fs", "", <<>>), <<"unable to get memory controller path">>)]
    ELSE IF file.fails \in {"open", "read"}
    THEN [m |-> ZeroMemStat, err |-> PathError(file.fails)]
    ELSE LET st == parseMemStat(file.lines, 1, [m |-> ZeroMemStat, err |-> Nil])
         IN  IF st.err # Nil
             THEN [m |-> ZeroMemStat,
                   err |-> Error("errorString", "", <<"failed to parse meminfo">> \o st.err.msg)]
             ELSE [m |-> st.m, err |-> Nil]

collectUnitMemMetrics(unit, file) ==
    LET r == NewMemStat(file)
        unitType == parseUnitType(unit)
        labels == <<unit.Name, unitType>>
    IN
    IF r.err # Nil
    THEN IF IsOpenPathError(r.err)
         THEN Outcome(<<>>, Nil)
         ELSE Outcome(<<>>, Wrapf(r.err, errControlGroupReadMsg("Memory stat")))
    ELSE Outcome(<< Sample("unitMemFileCache", Float64(r.m["FileBytes"]), labels),
                    Sample("unitMemAnon", Float64(r.m["AnonBytes"]), labels),
                    Sample("unitMemKernelStack", Float64(r.m["KernelStackBytes"]), labels),
                    Sample("unitMemFileCacheDirty", Float64(r.m["FileDirtyBytes"]), labels),
                    Sample("unitMemFileMapped", Float64(r.m["FileMappedBytes"]), labels) >>,
                 Nil)

----------------------------------------------------------------------------
(* The environment each collector call may meet *)

NoFile == FileView("none", <<>>)
NoProc == ProcView("none")

Env(bus, file, procfs) == [bus |-> bus, file |-> file, procfs |-> procfs]
NoEnv == Env(NoBus, NoFile, NoProc)

OneProperty(iface, prop, r) == (<<iface, prop>> :> r)

\* the properties the control-group stage of collectUnit may read; a property
\* the code does not reach under this view is left failing
ControlGroupBus(iface, cg, t, sl, rae) ==
    (<<iface, "ControlGroup">> :> cg) @@ (<<iface, "Type">> :> t) @@
    (<<iface, "Slice">> :> sl) @@ (<<"Service", "RemainAfterExit">> :> rae)

ControlGroupResults == {Fail, Ok(U32(0)), Ok(Str("")), Ok(Str("/system.slice/x"))}

ControlGroupBuses(unit) ==
    LET iface == parseUnitTypeInterface(unit)
        States(cg) ==
            IF cg = Ok(Str("")) /\ unit.ActiveState \notin {"inactive", "failed"}
            THEN StringResults ELSE {Fail}
        Flags(cg) ==
            IF /\ parseUnitType(unit) # "mount"
               /\ \/ cg.err
                  \/ cg.val.type # "string"
                  \/ cg = Ok(Str("")) /\ unit.ActiveState = "active"
            THEN BoolResults ELSE {Fail}
    IN  UNION { { ControlGroupBus(iface, cg, t, sl, rae) :
                    t \in States(cg), sl \in States(cg), rae \in Flags(cg) } :
                cg \in ControlGroupResults }

SocketBus(a, c, r) ==
    (<<"Socket", "NAccepted">> :> a) @@ (<<"Socket", "NConnections">> :> c) @@
    (<<"Socket", "NRefused">> :> r)

SocketBuses == { SocketBus(a, c, r) : a \in Uint32Results, c \in Uint32Results,
                                      r \in Uint32Results }

TasksBus(c, m) ==
    (<<"Service", "TasksCurrent">> :> c) @@ (<<"Service", "TasksMax">> :> m)

TasksBuses == { TasksBus(c, m) : c \in Uint64Results, m \in Uint64Results }

\* cpu.stat as the kernel writes it, short of a key, and with a malformed line
CPUStatFiles ==
    { FileView("NewDefaultFS", <<>>), FileView("cgGetPath", <<>>),
      FileView("open", <<>>), FileView("read", <<>>),
      FileView("ok", << Line("usage_usec", 2, TRUE, 5), Line("user_usec", 2, TRUE, 3),
                        Line("system_usec", 2, TRUE, 1), Line("nr_periods", 2, TRUE, 0) >>),
      FileView("ok", << Line("usage_usec", 2, TRUE, 5), Line("user_usec", 2, TRUE, 3) >>),
      FileView("ok", << Line("usage_usec", 3, TRUE, 5) >>),
      FileView("ok", <<>>) }

MemStatFiles ==
    { FileView("NewDefaultFS", <<>>), FileView("cgGetPath", <<>>),
      FileView("open", <<>>), FileView("read", <<>>),
      FileView("ok", << Line("anon", 2, TRUE, 4), Line("file", 2, TRUE, 8),
                        Line("foo", 2, TRUE, 9) >>),
      FileView("ok", << Line("anon", 1, FALSE, 0) >>),
      FileView("ok", << Line("anon", 2, FALSE, 0) >>),
      FileView("ok", <<>>) }

ProcViews == { ProcView(f) : f \in ProcStages }

----------------------------------------------------------------------------
(* Configuration and the units of the init system *)

\* the default of --collector.unit-whitelist: .+
DefaultWhitelist == Plus(AnyChar)

\* the default of --collector.unit-blacklist: .+\.(device)
DefaultBlacklist == Cat(Plus(AnyChar), Cat(Lit(Dot), Lit("device")))

\* NewCollector: the flags and the two patterns compiled anchored
NewCollector(enableRestartsMetrics, enableFDMetrics, unitWhitelist, unitBlacklist) ==
    [enableRestartsMetrics |-> enableRestartsMetrics,
     enableFDMetrics       |-> enableFDMetrics,
     unitWhitelistPattern  |-> CompileAnchored(unitWhitelist),
     unitBlacklistPattern  |-> CompileAnchored(unitBlacklist)]

Whitelists == { DefaultWhitelist, Lit("ssh"), Cat(Plus(AnyChar), Cat(Lit(Dot), Lit("service"))) }
Blacklists == { DefaultBlacklist, Lit("var") }

Configs == { NewCollector(r, f, w, b) :
               r \in BOOLEAN, f \in BOOLEAN, w \in Whitelists, b \in Blacklists }

Name(stem, type) == <<stem, Dot, type>>

UnitNames == { Name("foo", "service"), Name("var", "mount"), Name("ssh", "socket"),
               Name("backup", "timer"), Name("multi", "target"), Name("sda", "device"),
               Name("user", "slice"), Name("swapfile", "swap"),
               <<"dev", Dot, "mount", Dot, "service">>, <<"README">> }

LoadStates == {"loaded", "not-found"}

\* the active states of the init system; "reloading" is one of them
ActiveStates == {"active", "reloading", "inactive", "failed", "activating", "deactivating"}

AllUnits == { Unit(n, l, a) : n \in UnitNames, l \in LoadStates, a \in ActiveStates }

\* lists of at most n units with distinct names
RECURSIVE UnitLists(_, _)
UnitLists(pool, n) ==
    IF n = 0 THEN { <<>> }
    ELSE LET shorter == UnitLists(pool, n - 1) IN
         shorter \cup { Append(l, u) : l \in { x \in shorter : Len(x) = n - 1 },
                                       u \in pool }

----------------------------------------------------------------------------
(* collectUnit: dispatch by unit type *)

ControlGroupTypes == {"service", "mount", "socket", "swap", "slice"}

\* the second switch of collectUnit: the first D-Bus collector of the unit's type
DbusCollector(unit) ==
    CASE parseUnitType(unit) = "service" -> "collectServiceMetainfo"
      [] parseUnitType(unit) = "mount"   -> "collectMountMetainfo"
      [] parseUnitType(unit) = "timer"   -> "collectTimerTriggerTime"
      [] parseUnitType(unit) = "socket"  -> "collectSocketConnMetrics"
      [] OTHER                           -> "noUnitTypeHandler"

\* the first switch of collectUnit
AfterUnitState(unit) ==
    IF parseUnitType(unit) \in ControlGroupTypes
    THEN "getControlGroup"
    ELSE DbusCollector(unit)

\* a collectUnit that calls the restart-count collector whatever the flag
AfterStartTimeAlwaysRestart(enableRestartsMetrics) == "collectServiceRestartCount"

\* `if *enableRestartsMetrics` after the start-time collector
AfterStartTime(enableRestartsMetrics) ==
    IF enableRestartsMetrics
    THEN "collectServiceRestartCount"
    ELSE "collectServiceTasksMetrics"

\* `return nil` at the end of collectUnit, whatever the last collector returned
collectUnitReturn(lastErr) == Nil

\* a goroutine of collect(), before the go statement starts it
NewTask(unit) ==
    [unit |-> unit, pc |-> "unstarted", cgroupPath |-> NilPath, invoked |-> <<>>,
     ret |-> Nil]

\* no collector call: the latest step was not one
NoCall ==
    [task |-> 0, collector |-> "", env |-> NoEnv, out |-> Outcome(<<>>, Nil),
     warned |-> FALSE]

Running == proc = "running"

\* task i has made the call `name` in environment env with outcome out, and
\* goes on at next (a panic ends the process instead)
Step(i, name, env, out, warned, next, path) ==
    /\ task' = [task EXCEPT ![i] =
                  [@ EXCEPT !.pc = IF out.panic THEN "panicked" ELSE next,
                            !.invoked = Append(@, name),
                            !.cgroupPath = path,
                            !.ret = IF next = "return" /\ ~out.panic
                                    THEN collectUnitReturn(out.err) ELSE @]]
    /\ last' = [task |-> i, collector |-> name, env |-> env, out |-> out,
                warned |-> warned]
    /\ sink' = out.samples
    /\ proc' = IF out.panic THEN "crashed" ELSE proc
    /\ UNCHANGED <<cfg, system, pc, conn, closes, err, units, spawned, wg, errorLog>>

At(i, where) == Running /\ i \in 1..Len(task) /\ task[i].pc = where

CollectUnitState(i) ==
    /\ At(i, "collectUnitState")
    /\ LET unit == task[i].unit
           out == collectUnitState(unit)
       IN  Step(i, "collectUnitState", NoEnv, out, out.err # Nil,
                AfterUnitState(unit), task[i].cgroupPath)

\* lines 321-338: resolve the control group, decide whether to warn, and go on
\* to the accounting collectors only with a path
GetControlGroup(i) ==
    /\ At(i, "getControlGroup")
    /\ \E bus \in ControlGroupBuses(task[i].unit) :
         LET unit == task[i].unit
             r == getControlGroup(unit, bus)
         IN  Step(i, "getControlGroup", Env(bus, NoFile, NoProc), Outcome(<<>>, r.err),
                  ControlGroupErrorWarned(unit, bus, r.err),
                  IF r.path.present THEN "collectUnitCPUMetrics" ELSE DbusCollector(unit),
                  r.path)

\* lines 339-346 with cpu.stat drawn from a set of file views
CollectUnitCPUMetricsFrom(i, files) ==
    /\ At(i, "collectUnitCPUMetrics")
    /\ \E file \in files :
         LET unit == task[i].unit
             out == collectUnitCPUMetrics(unit, file)
         IN  Step(i, "collectUnitCPUMetrics", Env(NoBus, file, NoProc), out,
                  out.err # Nil /\ parseUnitType(unit) # "socket",
                  "collectUnitMemMetrics", task[i].cgroupPath)

CollectUnitCPUMetrics(i) == CollectUnitCPUMetricsFrom(i, CPUStatFiles)

\* lines 347-350 with memory.stat drawn from a set of file views
CollectUnitMemMetricsFrom(i, files) ==
    /\ At(i, "collectUnitMemMetrics")
    /\ \E file \in files :
         LET unit == task[i].unit
             out == collectUnitMemMetrics(unit, file)
         IN  Step(i, "collectUnitMemMetrics", Env(NoBus, file, NoProc), out,
                  out.err # Nil, DbusCollector(unit), task[i].cgroupPath)

CollectUnitMemMetrics(i) == CollectUnitMemMetricsFrom(i, MemStatFiles)

CollectServiceMetainfo(i) ==
    /\ At(i, "collectServiceMetainfo")
    /\ \E r \in StringResults :
         LET bus == OneProperty("Service", "Type", r)
             out == collectServiceMetainfo(task[i].unit, bus)
         IN  Step(i, "collectServiceMetainfo", Env(bus, NoFile, NoProc), out,
                  out.err # Nil, "collectServiceStartTimeMetrics", task[i].cgroupPath)

CollectServiceStartTimeMetrics(i) ==
    /\ At(i, "collectServiceStartTimeMetrics")
    /\ \E r \in Uint64Results :
         LET bus == OneProperty("Unit", "ActiveEnterTimestamp", r)
             out == collectServiceStartTimeMetrics(task[i].unit, bus)
         IN  Step(i, "collectServiceStartTimeMetrics", Env(bus, NoFile, NoProc), out,
                  out.err # Nil, AfterStartTime(cfg.enableRestartsMetrics),
                  task[i].cgroupPath)

CollectServiceRestartCount(i) ==
    /\ At(i, "collectServiceRestartCount")
    /\ \E r \in Uint32Results :
         LET bus == OneProperty("Service", "NRestarts", r)
             out == collectServiceRestartCount(task[i].unit, bus)
         IN  Step(i, "collectServiceRestartCount", Env(bus, NoFile, NoProc), out,
                  out.err # Nil, "collectServiceTasksMetrics", task[i].cgroupPath)

CollectServiceTasksMetrics(i) ==
    /\ At(i, "collectServiceTasksMetrics")
    /\ \E bus \in TasksBuses :
         LET out == collectServiceTasksMetrics(task[i].unit, bus)
         IN  Step(i, "collectServiceTasksMetrics", Env(bus, NoFile, NoProc), out,
                  out.err # Nil, "collectServiceProcessMetrics", task[i].cgroupPath)

CollectServiceProcessMetrics(i) ==
    /\ At(i, "collectServiceProcessMetrics")
    /\ \E r \in Uint32Results :
       \E procfs \in IF ~r.err /\ r.val.type = "uint32" /\ r.val.n # 0
                     THEN ProcViews ELSE {NoProc} :
         LET bus == OneProperty("Service", "MainPID", r)
             out == collectServiceProcessMetrics(task[i].unit, bus, procfs,
                                                 cfg.enableFDMetrics)
         IN  Step(i, "collectServiceProcessMetrics", Env(bus, NoFile, procfs), out,
                  out.err # Nil, "return", task[i].cgroupPath)

CollectMountMetainfo(i) ==
    /\ At(i, "collectMountMetainfo")
    /\ \E r \in StringResults :
         LET bus == OneProperty("Mount", "Type", r)
             out == collectMountMetainfo(task[i].unit, bus)
         IN  Step(i, "collectMountMetainfo", Env(bus, NoFile, NoProc), out,
                  out.err # Nil, "return", task[i].cgroupPath)

CollectTimerTriggerTime(i) ==
    /\ At(i, "collectTimerTriggerTime")
    /\ \E r \in Uint64Results :
         LET bus == OneProperty("Timer", "LastTriggerUSec", r)
             out == collectTimerTriggerTime(task[i].unit, bus)
         IN  Step(i, "collectTimerTriggerTime", Env(bus, NoFile, NoProc), out,
                  out.err # Nil, "return", task[i].cgroupPath)

CollectSocketConnMetrics(i) ==
    /\ At(i, "collectSocketConnMetrics")
    /\ \E bus \in SocketBuses :
         LET out == collectSocketConnMetrics(task[i].unit, bus)
         IN  Step(i, "collectSocketConnMetrics", Env(bus, NoFile, NoProc), out,
                  out.err # Nil, "return", task[i].cgroupPath)

\* the default arm of the second switch: a debug line, no collector
NoUnitTypeHandler(i) ==
    /\ At(i, "noUnitTypeHandler")
    /\ Step(i, "noUnitTypeHandler", NoEnv, Outcome(<<>>, Nil), FALSE, "return",
            task[i].cgroupPath)

\* the calls of collectUnit that read the bus or a file, or send to the sink
BlockingCalls ==
    {"collectUnitState", "getControlGroup", "collectUnitCPUMetrics", "collectUnitMemMetrics",
     "collectServiceMetainfo", "collectServiceStartTimeMetrics", "collectServiceRestartCount",
     "collectServiceTasksMetrics", "collectServiceProcessMetrics", "collectMountMetainfo",
     "collectTimerTriggerTime", "collectSocketConnMetrics"}

\* a read of task i that never returns, or a send of it that is never accepted:
\* the call has no deadline, and the goroutine stays in it
Hang(i) ==
    /\ \E c \in BlockingCalls : At(i, c)
    /\ task' = [task EXCEPT ![i].pc = "blocked"]
    /\ sink' = <<>>
    /\ last' = NoCall
    /\ UNCHANGED <<cfg, system, pc, conn, closes, err, units, spawned, wg, errorLog, proc>>

\* the end of the goroutine: collectUnit has returned, wg.Done(); the
\* goroutine's locals are gone
TaskDone(i) ==
    /\ At(i, "return")
    /\ task' = [task EXCEPT ![i] = [NewTask(@.unit) EXCEPT !.pc = "done"]]
    /\ wg' = wg - 1
    /\ sink' = <<>>
    /\ last' = NoCall
    /\ UNCHANGED <<cfg, system, pc, conn, closes, err, units, spawned, errorLog, proc>>

----------------------------------------------------------------------------
(* Collect and collect *)

\* the state of a cycle before it starts
CycleReset ==
    /\ closes' = 0
    /\ units' = <<>>
    /\ spawned' = 0
    /\ wg' = 0
    /\ task' = <<>>
    /\ sink' = <<>>
    /\ last' = NoCall
    /\ errorLog' = 0

\* Collect calls collect, which calls c.newDbus(): on failure collect returns
\* the wrapped error before any defer is registered
NewDbus ==
    /\ Running
    /\ pc \in {"idle", "finished"}
    /\ CycleReset
    /\ \E ok \in BOOLEAN :
         IF ok
         THEN conn' = "open" /\ err' = Nil /\ pc' = "ListUnits"
         ELSE /\ conn' = "nil"
              /\ err' = Wrapf(Error("dbus", "", <<>>), <<"couldn't get dbus connection">>)
              /\ pc' = "collectReturned"
    /\ UNCHANGED <<cfg, system, proc>>

\* a collect() whose failed listing returns with the connection left open
ListUnitsFailureLeaksConn ==
    /\ Running
    /\ pc = "ListUnits"
    /\ err' = Wrapf(Error("dbus", "", <<>>),
                    <<"could not get list of systemd units from dbus">>)
    /\ pc' = "collectReturned"
    /\ sink' = <<>>
    /\ last' = NoCall
    /\ UNCHANGED <<cfg, system, conn, closes, units, spawned, wg, task, errorLog, proc>>

\* conn.ListUnits() fails: collect returns the wrapped error and the deferred
\* conn.Close() runs
ListUnitsFails ==
    /\ Running
    /\ pc = "ListUnits"
    /\ err' = Wrapf(Error("dbus", "", <<>>),
                    <<"could not get list of systemd units from dbus">>)
    /\ conn' = "closed"
    /\ closes' = closes + 1
    /\ pc' = "collectReturned"
    /\ sink' = <<>>
    /\ last' = NoCall
    /\ UNCHANGED <<cfg, system, units, spawned, wg, task, errorLog, proc>>

\* conn.ListUnits() succeeds: filterUnits, wg.Add(len(units))
ListUnits ==
    /\ Running
    /\ pc = "ListUnits"
    /\ LET filtered == filterUnits(system, cfg.unitWhitelistPattern,
                                   cfg.unitBlacklistPattern)
       IN  /\ units' = filtered
           /\ wg' = Len(filtered)
           /\ task' = [i \in 1..Len(filtered) |-> NewTask(filtered[i])]
           /\ pc' = IF Len(filtered) = 0 THEN "Wait" ELSE "go"
    /\ spawned' = 0
    /\ sink' = <<>>
    /\ last' = NoCall
    /\ UNCHANGED <<cfg, system, conn, closes, err, errorLog, proc>>

\* one iteration of `for _, unit := range units { go func(unit) {...}(unit) }`
Go ==
    /\ Running
    /\ pc = "go"
    /\ spawned' = spawned + 1
    /\ task' = [task EXCEPT ![spawned + 1].pc = "collectUnitState"]
    /\ pc' = IF spawned + 1 = Len(units) THEN "Wait" ELSE "go"
    /\ sink' = <<>>
    /\ last' = NoCall
    /\ UNCHANGED <<cfg, system, conn, closes, err, units, wg, errorLog, proc>>

\* a collect() that goes past wg.Wait() with tasks unfinished
WaitDoesNotBlock ==
    /\ Running
    /\ pc = "Wait"
    /\ conn' = "closed"
    /\ closes' = closes + 1
    /\ err' = Nil
    /\ pc' = "collectReturned"
    /\ sink' = <<>>
    /\ last' = NoCall
    /\ UNCHANGED <<cfg, system, units, spawned, wg, task, errorLog, proc>>

\* wg.Wait() returns once the counter is zero; collect returns nil and the
\* deferred conn.Close() runs
Wait ==
    /\ Running
    /\ pc = "Wait"
    /\ wg = 0
    /\ conn' = "closed"
    /\ closes' = closes + 1
    /\ err' = Nil
    /\ pc' = "collectReturned"
    /\ sink' = <<>>
    /\ last' = NoCall
    /\ UNCHANGED <<cfg, system, units, spawned, wg, task, errorLog, proc>>

\* a Collect() that ends the process on a failed cycle
CollectExitsOnError ==
    /\ Running
    /\ pc = "collectReturned"
    /\ errorLog' = IF err # Nil THEN errorLog + 1 ELSE errorLog
    /\ proc' = IF err # Nil THEN "crashed" ELSE proc
    /\ pc' = "finished"
    /\ sink' = <<>>
    /\ last' = NoCall
    /\ UNCHANGED <<cfg, system, conn, closes, err, units, spawned, wg, task>>

\* Collect: `if err != nil { c.logger.Error(err) }`
Collect ==
    /\ Running
    /\ pc = "collectReturned"
    /\ errorLog' = IF err # Nil THEN errorLog + 1 ELSE errorLog
    /\ pc' = "finished"
    /\ sink' = <<>>
    /\ last' = NoCall
    /\ UNCHANGED <<cfg, system, conn, closes, err, units, spawned, wg, task, proc>>

----------------------------------------------------------------------------
(* Specifications *)

InitCycle ==
    /\ pc = "idle"
    /\ conn = "nil"
    /\ closes = 0
    /\ err = Nil
    /\ units = <<>>
    /\ spawned = 0
    /\ wg = 0
    /\ task = <<>>
    /\ sink = <<>>
    /\ last = NoCall
    /\ errorLog = 0
    /\ proc = "running"

\* both feature flags on, the default patterns
ConcurrentConfig == NewCollector(TRUE, TRUE, DefaultWhitelist, DefaultBlacklist)

\* the units of the concurrent specification, in the order ListUnits reports them
ConcurrentUnits ==
    << Unit(Name("foo", "service"), "loaded", "active"),
       Unit(Name("ssh", "socket"), "loaded", "active"),
       Unit(Name("var", "mount"), "loaded", "inactive"),
       Unit(Name("backup", "timer"), "loaded", "active"),
       Unit(Name("multi", "target"), "loaded", "active"),
       Unit(Name("sda", "device"), "loaded", "active") >>

\* the units of pool at the positions in S, in the order of pool
RECURSIVE Pick(_, _, _)
Pick(pool, S, i) ==
    IF i > Len(pool) THEN <<>>
    ELSE (IF i \in S THEN <<pool[i]>> ELSE <<>>) \o Pick(pool, S, i + 1)

\* several units collected concurrently under the default patterns
Init ==
    /\ cfg = ConcurrentConfig
    /\ system \in { Pick(ConcurrentUnits, S, 1) :
                      S \in { T \in SUBSET (1..Len(ConcurrentUnits)) :
                                Cardinality(T) <= MaxUnits } }
    /\ InitCycle

\* one unit of any name, load state and active state under any configuration
InitUnit ==
    /\ cfg \in Configs
    /\ system \in { <<u>> : u \in AllUnits }
    /\ InitCycle

\* the goroutines a cycle may have
TaskIds == 1..MaxUnits

Next ==
    \/ NewDbus
    \/ ListUnitsFails
    \/ ListUnits
    \/ Go
    \/ Wait
    \/ Collect
    \/ \E i \in TaskIds : CollectUnitState(i)
    \/ \E i \in TaskIds : GetControlGroup(i)
    \/ \E i \in TaskIds : CollectUnitCPUMetrics(i)
    \/ \E i \in TaskIds : CollectUnitMemMetrics(i)
    \/ \E i \in TaskIds : CollectServiceMetainfo(i)
    \/ \E i \in TaskIds : CollectServiceStartTimeMetrics(i)
    \/ \E i \in TaskIds : CollectServiceRestartCount(i)
    \/ \E i \in TaskIds : CollectServiceTasksMetrics(i)
    \/ \E i \in TaskIds : CollectServiceProcessMetrics(i)
    \/ \E i \in TaskIds : CollectMountMetainfo(i)
    \/ \E i \in TaskIds : CollectTimerTriggerTime(i)
    \/ \E i \in TaskIds : CollectSocketConnMetrics(i)
    \/ \E i \in TaskIds : NoUnitTypeHandler(i)
    \/ \E i \in TaskIds : TaskDone(i)

Spec == Init /\ [][Next]_vars

\* the cycle with calls that may hang; every step that can be taken other than
\* a hang is taken in the end, as the scheduler runs every runnable goroutine
NextLive == Next \/ \E i \in TaskIds : Hang(i)

\* a service, a socket, a mount, a timer and a target, of which the init
\* system reports some
InitLive ==
    /\ cfg = ConcurrentConfig
    /\ system \in { Pick(ConcurrentUnits, S, 1) :
                      S \in { T \in SUBSET (1..5) : Cardinality(T) <= MaxUnits } }
    /\ InitCycle

SpecLive == InitLive /\ [][NextLive]_vars /\ WF_vars(Next)

\* the units given to filterUnits in the filter specification: names the
\* patterns tell apart, in both load states
FilterUnits ==
    { Unit(n, l, "active") :
        n \in { Name("foo", "service"), Name("ssh", "socket"), Name("sda", "device"),
                Name("var", "mount"), <<"ssh">>, <<"var">> },
        l \in LoadStates }

\* any list of units, repeats included, under any pair of patterns
InitFilter ==
    /\ cfg \in { NewCollector(FALSE, FALSE, w, b) : w \in Whitelists, b \in Blacklists }
    /\ system \in UnitLists(FilterUnits, MaxFilterUnits)
    /\ InitCycle

\* the cycle up to the filtered list
NextFilter ==
    \/ NewDbus
    \/ ListUnitsFails
    \/ ListUnits

SpecFilter == InitFilter /\ [][NextFilter]_vars

SpecUnit == InitUnit /\ [][Next]_vars

----------------------------------------------------------------------------
(* The parser specification: one active service with a control group, whose
   cpu.stat and memory.stat are any short sequence of lines *)

\* the lists of at most n lines over a pool of lines
RECURSIVE LineLists(_, _)
LineLists(pool, n) ==
    IF n = 0 THEN {<<>>}
    ELSE LET shorter == LineLists(pool, n - 1) IN
         shorter \cup { Append(l, x) : l \in { y \in shorter : Len(y) = n - 1 },
                                       x \in pool }

CPUAcctKeys == {"usage_usec", "user_usec", "system_usec"}

\* lines of cpu.stat: every recognized key and one unrecognized key with two
\* values, a blank line, and lines with a value that is no number or with a
\* third field
CPUStatLines ==
    { Line(k, 2, TRUE, v) : k \in CPUAcctKeys \cup {"nr_periods"}, v \in {1, 2} }
    \cup { Line("", 1, FALSE, 0), Line("user_usec", 2, FALSE, 0),
           Line("nr_periods", 2, FALSE, 0), Line("nr_periods", 3, TRUE, 1) }

CPUStatInputs == { FileView("ok", l) : l \in LineLists(CPUStatLines, MaxCPUStatLines) }

\* lines of memory.stat: every recognized key with a value, a second value and
\* a line of three fields for one of them, two unrecognized keys with a value,
\* and lines with a value that is no number, with one field, and with none
MemStatLines ==
    { Line(k, 2, TRUE, 1) : k \in MemStatKeys }
    \cup { Line("anon", 2, TRUE, 2), Line("file", 3, TRUE, 2),
           Line("foo", 2, TRUE, 3), Line("workingset_refault_file", 2, TRUE, 3),
           Line("foo", 2, FALSE, 0), Line("anon", 2, FALSE, 0),
           Line("anon", 1, FALSE, 0), Line("", 0, FALSE, 0) }

MemStatInputs == { FileView("ok", l) : l \in LineLists(MemStatLines, MaxMemStatLines) }

ParsedUnit == Unit(Name("foo", "service"), "loaded", "active")

InitParse ==
    /\ cfg = ConcurrentConfig
    /\ system = <<ParsedUnit>>
    /\ InitCycle

NextParse ==
    \/ NewDbus
    \/ ListUnits
    \/ Go
    \/ \E i \in TaskIds : CollectUnitState(i)
    \/ \E i \in TaskIds : GetControlGroup(i)
    \/ \E i \in TaskIds : CollectUnitCPUMetricsFrom(i, CPUStatInputs)
    \/ \E i \in TaskIds : CollectUnitMemMetricsFrom(i, MemStatFiles)

SpecParse == InitParse /\ [][NextParse]_vars

\* the same unit with any short memory.stat
NextMemStat ==
    \/ NewDbus
    \/ ListUnits
    \/ Go
    \/ \E i \in TaskIds : CollectUnitState(i)
    \/ \E i \in TaskIds : GetControlGroup(i)
    \/ \E i \in TaskIds : CollectUnitCPUMetricsFrom(i, CPUStatFiles)
    \/ \E i \in TaskIds : CollectUnitMemMetricsFrom(i, MemStatInputs)

SpecMemStat == InitParse /\ [][NextMemStat]_vars

----------------------------------------------------------------------------
(* Properties *)

\* the samples of a batch that use descriptor desc, in order
SamplesOf(samples, desc) == SelectSeq(samples, LAMBDA x : x.desc = desc)

\* the unit of the latest collector call
LastUnit == task[last.task].unit

\* the result the latest call's bus view holds for a property
LastRead(iface, prop) == last.env.bus[<<iface, prop>>]

Returned == pc \in {"collectReturned", "finished"}

\* C1: once the connection and the listing have succeeded there is one task per
\* filtered unit, each started exactly once by the loop, and when collect() has
\* returned every task has finished and no step sends a sample any more.
C1_JoinBeforeReturn ==
    /\ pc \in {"go", "Wait"} \/ (Returned /\ err = Nil) =>
          /\ Len(task) = Len(units)
          /\ \A i \in 1..Len(task) :
                /\ task[i].unit = units[i]
                /\ task[i].pc # "unstarted" <=> i <= spawned
    /\ pc = "Wait" \/ (Returned /\ err = Nil) => spawned = Len(units)
    /\ Returned =>
          /\ \A i \in 1..Len(task) : task[i].pc = "done"
          /\ wg = 0
          /\ sink = <<>>
          /\ last = NoCall

C1_Witness ==
    /\ pc = "collectReturned"
    /\ err = Nil
    /\ Len(units) = MaxUnits
    /\ \A i \in 1..Len(task) : task[i].pc = "done"

\* C2: a connection that was opened is open and unclosed while collect() runs,
\* is closed exactly once when collect() has returned, whichever way it
\* returned, and is never closed while a task is short of its end.
C2_ClosedOnceAtEnd ==
    /\ pc \in {"ListUnits", "go", "Wait"} => conn = "open" /\ closes = 0
    /\ Returned /\ conn # "nil" => conn = "closed" /\ closes = 1
    /\ Returned /\ conn = "nil" => closes = 0 /\ err # Nil
    /\ conn = "closed" => \A i \in 1..Len(task) : task[i].pc = "done"

C2_Witness ==
    /\ pc = "collectReturned"
    /\ conn = "closed"
    /\ closes = 1
    /\ err # Nil

\* C3: a cycle whose connection or listing fails has no task and sends no
\* sample in any of its states, collect() returns the failure, and Collect logs
\* it once and leaves the process running.
C3_FailedCycle ==
    /\ pc = "ListUnits" => task = <<>> /\ spawned = 0 /\ sink = <<>>
    /\ Returned /\ (conn = "nil" \/ Len(task) # Len(units)) => err # Nil
    /\ Returned /\ err # Nil =>
          /\ task = <<>>
          /\ units = <<>>
          /\ spawned = 0
          /\ sink = <<>>
          /\ proc = "running"
          /\ pc = "finished" => errorLog = 1
    /\ Returned /\ err = Nil => errorLog = 0

C3_Witness ==
    /\ pc = "finished"
    /\ err # Nil
    /\ conn = "closed"
    /\ errorLog = 1
    /\ proc = "running"
    /\ system # <<>>

\* the D-Bus collectors collectUnit is to call for a unit, by its type
DbusCollectorsOf(unit) ==
    CASE parseUnitType(unit) = "service" ->
            {"collectServiceMetainfo", "collectServiceStartTimeMetrics",
             "collectServiceTasksMetrics", "collectServiceProcessMetrics"}
            \cup (IF cfg.enableRestartsMetrics THEN {"collectServiceRestartCount"} ELSE {})
      [] parseUnitType(unit) = "mount"  -> {"collectMountMetainfo"}
      [] parseUnitType(unit) = "timer"  -> {"collectTimerTriggerTime"}
      [] parseUnitType(unit) = "socket" -> {"collectSocketConnMetrics"}
      [] OTHER -> {}

\* C4: no collectUnit ends other than by returning nil, having called every
\* D-Bus collector of its unit's type, and no unit's task is stopped by what
\* happened in another's.
C4_EveryCollectorRunsAndReturnsNil ==
    /\ proc = "running"
    /\ \A i \in 1..Len(task) :
          /\ task[i].pc # "panicked"
          /\ task[i].pc = "return" =>
                /\ task[i].ret = Nil
                /\ DbusCollectorsOf(task[i].unit) \subseteq Range(task[i].invoked)

\* a socket unit's task has panicked and ended the process while another unit's
\* task had D-Bus collectors left to call
C4_Witness ==
    /\ proc = "crashed"
    /\ \E i, j \in 1..Len(task) :
          /\ i # j
          /\ task[i].pc = "panicked"
          /\ parseUnitType(task[i].unit) = "socket"
          /\ task[j].pc \notin {"done", "return", "panicked"}
          /\ ~(DbusCollectorsOf(task[j].unit) \subseteq Range(task[j].invoked))

\* C5: a property of another dynamic type than the expected one makes the
\* collector return an error without the field's sample; no collector panics.
C5_TypeMismatchIsAnError ==
    /\ ~last.out.panic
    /\ proc = "running"
    /\ last.collector = "collectSocketConnMetrics" =>
          \A prop \in {"NAccepted", "NConnections", "NRefused"} :
             LET r == LastRead("Socket", prop) IN
             (~r.err /\ r.val.type # "uint32") => last.out.err # Nil
    /\ last.collector = "collectServiceTasksMetrics" =>
          LET r == LastRead("Service", "TasksCurrent") IN
          (~r.err /\ r.val.type # "uint64") =>
             last.out.err # Nil /\ last.out.samples = <<>>

\* NAccepted arrives as a string and the socket collector panics
C5_Witness ==
    /\ last.collector = "collectSocketConnMetrics"
    /\ LastRead("Socket", "NAccepted") = Ok(Str("x"))
    /\ last.out.panic
    /\ proc = "crashed"

SocketDesc(prop) ==
    CASE prop = "NAccepted"    -> "socketAcceptedConnectionsDesc"
      [] prop = "NConnections" -> "socketCurrentConnectionsDesc"
      [] prop = "NRefused"     -> "socketRefusedConnectionsDesc"

\* C6: in the socket collector a read that fails suppresses its own sample
\* only: every one of the three properties the bus holds as a uint32 gets its
\* sample, whichever of the others are missing.
C6_SocketReadsIndependent ==
    ( /\ last.collector = "collectSocketConnMetrics"
      /\ \A prop \in {"NAccepted", "NConnections", "NRefused"} :
            LastRead("Socket", prop).err \/ LastRead("Socket", prop).val.type = "uint32" )
    => \A prop \in {"NAccepted", "NConnections", "NRefused"} :
          LET r == LastRead("Socket", prop) IN
          Len(SamplesOf(last.out.samples, SocketDesc(prop))) = (IF r.err THEN 0 ELSE 1)

\* the NAccepted read fails, the other two hold a uint32, and nothing is sent
C6_Witness ==
    /\ last.collector = "collectSocketConnMetrics"
    /\ LastRead("Socket", "NAccepted") = Fail
    /\ LastRead("Socket", "NConnections") = Ok(U32(7))
    /\ LastRead("Socket", "NRefused") = Ok(U32(7))
    /\ last.out.samples = <<>>
    /\ last.out.err # Nil

\* C7: the unit-state collector sends five unit_state samples, one per state
\* name in order, exactly one of them 1.0 and that one labelled with the unit's
\* active state, the other four 0.0.
C7_UnitStateOneHot ==
    last.collector = "collectUnitState" =>
       LET samples == last.out.samples
           hot == { k \in 1..Len(samples) : samples[k].value = Float64(1) }
       IN  /\ Len(samples) = 5
           /\ \A k \in 1..Len(samples) :
                 /\ samples[k].desc = "unitState"
                 /\ samples[k].labels[3] = unitStatesName[k]
                 /\ samples[k].value \in {Float64(0), Float64(1)}
           /\ Cardinality(hot) = 1
           /\ \A k \in hot : samples[k].labels[3] = LastUnit.ActiveState

\* a reloading unit gets five samples of 0.0
C7_Witness ==
    /\ last.collector = "collectUnitState"
    /\ LastUnit.ActiveState = "reloading"
    /\ Len(last.out.samples) = 5
    /\ \A k \in 1..5 : last.out.samples[k].value = Float64(0)

\* the descriptors whose sample value comes from a uint64 property
Uint64Descs == {"unitTasksCurrentDesc", "unitTasksMaxDesc", "unitStartTimeDesc",
                "timerLastTriggerDesc"}

\* C8: no sample whose value comes from a uint64 property carries the largest
\* unsigned 64-bit value.
C8_NoSentinelSample ==
    \A k \in 1..Len(sink) :
       sink[k].desc \in Uint64Descs => sink[k].value.num # MaxUint64

\* a timer whose LastTriggerUSec is the largest uint64 gets its sample
C8_Witness ==
    /\ last.collector = "collectTimerTriggerTime"
    /\ LastRead("Timer", "LastTriggerUSec") = Ok(U64(MaxUint64))
    /\ Len(sink) = 1
    /\ sink[1].desc = "timerLastTriggerDesc"
    /\ sink[1].value = Float64Div(Float64(MaxUint64), 1000000)

\* C9: in the task-count collector a TasksCurrent of the largest uint64 sends no
\* unit_tasks_current sample, a TasksMax of the largest uint64 sends no
\* unit_tasks_max sample, any other value of either is sent whatever the other
\* one is, and two uint64 values never make the collector return an error.
C9_TasksSentinels ==
    ( /\ last.collector = "collectServiceTasksMetrics"
      /\ ~LastRead("Service", "TasksCurrent").err
      /\ LastRead("Service", "TasksCurrent").val.type = "uint64"
      /\ ~LastRead("Service", "TasksMax").err
      /\ LastRead("Service", "TasksMax").val.type = "uint64" )
    => LET c == LastRead("Service", "TasksCurrent").val.n
           m == LastRead("Service", "TasksMax").val.n
           cur == SamplesOf(last.out.samples, "unitTasksCurrentDesc")
           max == SamplesOf(last.out.samples, "unitTasksMaxDesc")
       IN  /\ last.out.err = Nil
           /\ ~last.out.panic
           /\ Len(cur) = (IF c = MaxUint64 THEN 0 ELSE 1)
           /\ Len(max) = (IF m = MaxUint64 THEN 0 ELSE 1)
           /\ \A k \in 1..Len(cur) : cur[k].value = Float64(c)
           /\ \A k \in 1..Len(max) : max[k].value = Float64(m)
           /\ Len(last.out.samples) = Len(cur) + Len(max)

C9_Witness ==
    /\ last.collector = "collectServiceTasksMetrics"
    /\ LastRead("Service", "TasksCurrent") = Ok(U64(MaxUint64))
    /\ LastRead("Service", "TasksMax") = Ok(U64(1))
    /\ Len(last.out.samples) = 1
    /\ last.out.samples[1].desc = "unitTasksMaxDesc"
    /\ last.out.err = Nil

\* a unit is to be kept: its whole name matches the whitelist expression, its
\* whole name does not match the blacklist expression, it is loaded
Kept(unit) ==
    /\ FullMatch(cfg.unitWhitelistPattern.re, unit.Name)
    /\ ~FullMatch(cfg.unitBlacklistPattern.re, unit.Name)
    /\ unit.LoadState = "loaded"

KeptPositions == { j \in 1..Len(system) : Kept(system[j]) }

\* C10: the filtered list is the input list with exactly the positions of the
\* kept units, each once, unaltered and in input order.
C10_FilterExact ==
    pc \in {"go", "Wait"} =>
       /\ Len(units) = Cardinality(KeptPositions)
       /\ \E f \in [1..Len(units) -> KeptPositions] :
             /\ \A a, b \in 1..Len(units) : a < b => f[a] < f[b]
             /\ \A a \in 1..Len(units) : units[a] = system[f[a]]

C10_Witness ==
    /\ pc = "go"
    /\ Len(system) = 3
    /\ Len(units) = 2
    /\ system[2].LoadState = "loaded"
    /\ ~Kept(system[2])
    /\ units[1] = system[1]
    /\ units[2] = system[3]
    /\ units[1] # units[2]

\* C11: filtering the filtered list again with the same two patterns gives the
\* filtered list.
C11_FilterIdempotent ==
    pc \in {"go", "Wait"} =>
       filterUnits(units, cfg.unitWhitelistPattern, cfg.unitBlacklistPattern) = units

\* a list that lost a unit to the filter and kept two different ones
C11_Witness ==
    /\ pc = "go"
    /\ Len(units) = 2
    /\ Len(system) = 3
    /\ units[1] # units[2]
    /\ filterUnits(units, cfg.unitWhitelistPattern, cfg.unitBlacklistPattern) = units

\* what a string property lookup stands for in the resolver's error text: the
\* string the bus holds, "unknown" when the read fails or holds no string
LookupOrUnknown(r) ==
    IF ~r.err /\ r.val.type = "string" THEN r.val.s ELSE "unknown"

\* C12: with ControlGroup read as a string, the resolver gives: for an empty
\* path of an inactive or failed unit, no path and no error; for an empty path
\* of an active unit, no path and an error whose text carries the subtype and
\* the slice, "unknown" for a lookup that fails; for an empty path in any other
\* state, no path and no error; for a non-empty path, that path and no error.
\* No task ever holds a path that is present and empty.
C12_ControlGroupDecisionTable ==
    /\ \A i \in 1..Len(task) :
          task[i].cgroupPath.present => task[i].cgroupPath.path # ""
    /\ ( /\ last.collector = "getControlGroup"
         /\ ~LastRead(parseUnitTypeInterface(LastUnit), "ControlGroup").err
         /\ LastRead(parseUnitTypeInterface(LastUnit), "ControlGroup").val.type = "string" )
       => LET iface == parseUnitTypeInterface(LastUnit)
              cg == LastRead(iface, "ControlGroup").val.s
              state == LastUnit.ActiveState
              path == task[last.task].cgroupPath
              e == last.out.err
          IN  /\ (cg = "" /\ state \in {"inactive", "failed"}) =>
                    ~path.present /\ e = Nil
              /\ (cg = "" /\ state = "active") =>
                    /\ ~path.present
                    /\ e # Nil
                    /\ e.msg[2] = "active"
                    /\ e.msg[3] = LookupOrUnknown(LastRead(iface, "Type"))
                    /\ e.msg[4] = LookupOrUnknown(LastRead(iface, "Slice"))
              /\ (cg = "" /\ state \notin {"inactive", "failed", "active"}) =>
                    ~path.present /\ e = Nil
              /\ cg # "" => path = PathPtr(cg) /\ e = Nil

\* an active service with an empty path, a subtype and no readable slice
C12_Witness ==
    /\ last.collector = "getControlGroup"
    /\ LastUnit.ActiveState = "active"
    /\ LastRead(parseUnitTypeInterface(LastUnit), "ControlGroup") = Ok(Str(""))
    /\ LastRead(parseUnitTypeInterface(LastUnit), "Type") = Ok(Str("simple"))
    /\ LastRead(parseUnitTypeInterface(LastUnit), "Slice") = Fail
    /\ last.out.err.msg[3] = "simple"
    /\ last.out.err.msg[4] = "unknown"
    /\ ~task[last.task].cgroupPath.present

\* the descriptors of the CPU and memory accounting samples
AccountingDescs == {"unitCPUTotal", "unitMemFileCache", "unitMemAnon", "unitMemKernelStack",
                    "unitMemFileCacheDirty", "unitMemFileMapped"}

\* C13: when the resolver returns an error, a mount unit gets no warning, a
\* service whose RemainAfterExit is the boolean true gets no warning, and a
\* service whose RemainAfterExit is false, unreadable or no boolean gets the
\* warning; in all three cases the task holds no path, goes on at the first
\* collector of its type, and has not called and will not call the accounting
\* collectors.
C13_ControlGroupErrorHandling ==
    /\ \A i \in 1..Len(task) :
          /\ task[i].pc \in {"collectUnitCPUMetrics", "collectUnitMemMetrics"} =>
                task[i].cgroupPath.present
          /\ ~task[i].cgroupPath.present =>
                /\ "collectUnitCPUMetrics" \notin Range(task[i].invoked)
                /\ "collectUnitMemMetrics" \notin Range(task[i].invoked)
    /\ \A k \in 1..Len(sink) :
          sink[k].desc \in AccountingDescs => task[last.task].cgroupPath.present
    /\ (last.collector = "getControlGroup" /\ last.out.err # Nil) =>
          LET unit == LastUnit
              rae == LastRead("Service", "RemainAfterExit")
              t == task[last.task]
          IN  /\ ~t.cgroupPath.present
              /\ sink = <<>>
              /\ parseUnitType(unit) = "mount" =>
                    ~last.warned /\ t.pc = "collectMountMetainfo"
              /\ parseUnitType(unit) = "service" =>
                    /\ t.pc = "collectServiceMetainfo"
                    /\ last.warned <=> rae # Ok(Bool(TRUE))

\* a service that remains after exit and whose resolver failed: no warning
C13_Witness ==
    /\ last.collector = "getControlGroup"
    /\ last.out.err # Nil
    /\ parseUnitType(LastUnit) = "service"
    /\ LastRead("Service", "RemainAfterExit") = Ok(Bool(TRUE))
    /\ ~last.warned
    /\ task[last.task].pc = "collectServiceMetainfo"

\* the cpu.stat the latest call read, and what the parser makes of it
LastCPUStat == last.env.file.lines

LastCPUAcct == NewCPUAcct(last.env.file)

CPUStatRead == last.collector = "collectUnitCPUMetrics" /\ last.env.file.fails = "ok"

\* every line is a key and one base-10 unsigned 64-bit value
CPUStatWellFormed(lines) == \A j \in 1..Len(lines) : lines[j].n = 2 /\ lines[j].valid

HasKey(lines, k) == \E j \in 1..Len(lines) : lines[j].key = k

\* the value of the last line with key k
ValueOf(lines, k) ==
    LET J == { j \in 1..Len(lines) : lines[j].key = k }
    IN  lines[CHOOSE j \in J : \A h \in J : h <= j].val

WithoutUnrecognized(lines) == SelectSeq(lines, LAMBDA l : l.key \in CPUAcctKeys)

IncompleteError == Errorf(<<"no / incomplete info extracted from", "cpu.stat">>)

\* C14: the parse of cpu.stat succeeds exactly when every line, whatever its
\* key, is a key and one valid value and the three keys usage_usec, user_usec
\* and system_usec are all there; it then returns the three values as given,
\* with no relation required between them.  With every line well formed, a
\* missing key gives the incomplete-data error naming the file, and the lines
\* with other keys change neither the values nor the success.
C14_CPUAcctParse ==
    CPUStatRead =>
       LET lines == LastCPUStat
           r == LastCPUAcct
       IN  /\ r.err = Nil <=> /\ CPUStatWellFormed(lines)
                              /\ \A k \in CPUAcctKeys : HasKey(lines, k)
           /\ r.err = Nil =>
                 /\ r.acct.TotalMicrosec = ValueOf(lines, "usage_usec")
                 /\ r.acct.UserMicrosec = ValueOf(lines, "user_usec")
                 /\ r.acct.SystemMicrosec = ValueOf(lines, "system_usec")
                 /\ Len(last.out.samples) = 2
                 /\ last.out.samples[1].value =
                       Float64Div(Float64(ValueOf(lines, "user_usec")), 1000000)
                 /\ last.out.samples[2].value =
                       Float64Div(Float64(ValueOf(lines, "system_usec")), 1000000)
           /\ r.err # Nil => last.out.samples = <<>>
           /\ CPUStatWellFormed(lines) =>
                 /\ (\E k \in CPUAcctKeys : ~HasKey(lines, k)) => r.err = IncompleteError
                 /\ NewCPUAcct(FileView("ok", WithoutUnrecognized(lines))) = r

\* the three keys with user + system above the total, and one more key
C14_Witness ==
    /\ CPUStatRead
    /\ LastCPUAcct.err = Nil
    /\ LastCPUAcct.acct = [TotalMicrosec |-> 1, SystemMicrosec |-> 2, UserMicrosec |-> 2]
    /\ HasKey(LastCPUStat, "nr_periods")
    /\ Len(last.out.samples) = 2

\* C14 as stated: the parse succeeds exactly when the three keys are supplied
\* with valid values, a missing key gives the incomplete-data error, and a line
\* with another key changes neither the result nor the success.
C14_AsStated ==
    CPUStatRead =>
       LET lines == LastCPUStat
           r == LastCPUAcct
       IN  /\ r.err = Nil <=>
                 \A k \in CPUAcctKeys :
                    /\ HasKey(lines, k)
                    /\ \A j \in 1..Len(lines) :
                          lines[j].key = k => lines[j].n = 2 /\ lines[j].valid
           /\ r.err = Nil =>
                 /\ r.acct.TotalMicrosec = ValueOf(lines, "usage_usec")
                 /\ r.acct.UserMicrosec = ValueOf(lines, "user_usec")
                 /\ r.acct.SystemMicrosec = ValueOf(lines, "system_usec")
           /\ NewCPUAcct(FileView("ok", WithoutUnrecognized(lines))) = r

\* the memory.stat the latest call read, and what the parser makes of it
LastMemStatLines == last.env.file.lines

LastMemStat == NewMemStat(last.env.file)

MemStatRead == last.collector = "collectUnitMemMetrics" /\ last.env.file.fails = "ok"

\* the value of the last line whose key sets field f, zero without such a line
FieldValue(lines, f) ==
    LET J == { j \in 1..Len(lines) : MemStatField(lines[j].key) = f }
    IN  IF J = {} THEN 0 ELSE lines[CHOOSE j \in J : \A h \in J : h <= j].val

\* the first line the parser stops at
FirstBadLine(lines) ==
    LET J == { j \in 1..Len(lines) : lines[j].n < 2 \/ ~lines[j].valid }
    IN  lines[CHOOSE j \in J : \A h \in J : j <= h]

\* C15: the parse of memory.stat succeeds exactly when every line, whatever
\* its key, has at least two fields and a second field that is an unsigned
\* 64-bit number.  It then gives every field the value of the last line with
\* the field's key and zero without such a line, so a line with a recognized
\* key sets that key's field alone, a line with another key sets none, and the
\* empty input gives the all-zero record.  A parse that stops at a line of fewer
\* than two fields fails with the malformed-line error.
C15_MemStatParse ==
    MemStatRead =>
       LET lines == LastMemStatLines
           r == LastMemStat
           good == \A j \in 1..Len(lines) : lines[j].n >= 2 /\ lines[j].valid
       IN  /\ r.err = Nil <=> good
           /\ good =>
                 /\ \A f \in MemStatFields : r.m[f] = FieldValue(lines, f)
                 /\ Len(last.out.samples) = 5
                 /\ last.out.samples[1].value = Float64(FieldValue(lines, "FileBytes"))
                 /\ last.out.samples[2].value = Float64(FieldValue(lines, "AnonBytes"))
           /\ (~good /\ FirstBadLine(lines).n < 2) =>
                 r.err.msg = <<"failed to parse meminfo", "malformed memory.stat line">>
           /\ ~good => last.out.samples = <<>>
           /\ lines = <<>> => r.m = ZeroMemStat /\ r.err = Nil

\* `anon 1` after a line with an unrecognized key: AnonBytes alone is set
C15_Witness ==
    /\ MemStatRead
    /\ LastMemStatLines = << Line("foo", 2, TRUE, 3), Line("anon", 2, TRUE, 1) >>
    /\ LastMemStat.err = Nil
    /\ LastMemStat.m = [ZeroMemStat EXCEPT !["AnonBytes"] = 1]

\* C15 as stated: a line of fewer than two fields fails the parse, and when
\* there is none and every line with a recognized key carries a value the parse
\* succeeds, the lines with other keys causing no error and setting no field.
C15_AsStated ==
    MemStatRead =>
       LET lines == LastMemStatLines
           r == LastMemStat
       IN  /\ (\E j \in 1..Len(lines) : lines[j].n < 2) => r.err # Nil
           /\ ( \A j \in 1..Len(lines) :
                   /\ lines[j].n >= 2
                   /\ lines[j].key \in MemStatKeys => lines[j].valid )
              => /\ r.err = Nil
                 /\ \A f \in MemStatFields : r.m[f] = FieldValue(lines, f)

AccountingRead == last.collector \in {"collectUnitCPUMetrics", "collectUnitMemMetrics"}

\* C16: in both accounting collectors a stat file that cannot be opened gives
\* no sample, no error and no warning, a file that opens and does not parse
\* gives no sample and an error that is logged, and in both cases the task goes
\* on and the process keeps running.
C16_OpenFailureIsNotAnError ==
    AccountingRead =>
       LET fails == last.env.file.fails
           parsed == IF last.collector = "collectUnitCPUMetrics"
                     THEN NewCPUAcct(last.env.file).err = Nil
                     ELSE NewMemStat(last.env.file).err = Nil
       IN  /\ fails = "open" =>
                 last.out.samples = <<>> /\ last.out.err = Nil /\ ~last.warned
           /\ (fails = "ok" /\ ~parsed) =>
                 last.out.samples = <<>> /\ last.out.err # Nil /\ last.warned
           /\ proc = "running"
           /\ task[last.task].pc \notin {"panicked", "done"}

\* cpu.stat of a service cannot be opened: the collector returns an error and
\* collectUnit logs it
C16_Witness ==
    /\ last.collector = "collectUnitCPUMetrics"
    /\ last.env.file.fails = "open"
    /\ parseUnitType(LastUnit) = "service"
    /\ last.out.samples = <<>>
    /\ last.out.err # Nil
    /\ last.warned

\* the part of a unit's name after its last dot, the whole name without a dot
TypeOf(unit) ==
    LET n == unit.Name IN IF n[Len(n)] = Dot THEN "" ELSE n[Len(n)]

\* the calls collectUnit is to make for a unit, in order, given whether the
\* resolver gave a path
CallsOf(unit, withPath) ==
    <<"collectUnitState">>
    \o (IF TypeOf(unit) \in {"service", "mount", "socket", "swap", "slice"}
        THEN <<"getControlGroup">>
             \o (IF withPath THEN <<"collectUnitCPUMetrics", "collectUnitMemMetrics">>
                 ELSE <<>>)
        ELSE <<>>)
    \o (CASE TypeOf(unit) = "service" ->
                <<"collectServiceMetainfo", "collectServiceStartTimeMetrics">>
                \o (IF cfg.enableRestartsMetrics THEN <<"collectServiceRestartCount">>
                    ELSE <<>>)
                \o <<"collectServiceTasksMetrics", "collectServiceProcessMetrics">>
          [] TypeOf(unit) = "mount"  -> <<"collectMountMetainfo">>
          [] TypeOf(unit) = "timer"  -> <<"collectTimerTriggerTime">>
          [] TypeOf(unit) = "socket" -> <<"collectSocketConnMetrics">>
          [] OTHER -> <<"noUnitTypeHandler">>)

IsPrefix(s, t) == Len(s) <= Len(t) /\ s = SubSeq(t, 1, Len(s))

\* the descriptors each call may send samples of
DescsOf(collector) ==
    CASE collector = "collectUnitState" -> {"unitState"}
      [] collector \in {"collectServiceMetainfo", "collectMountMetainfo"} -> {"unitInfo"}
      [] collector = "collectServiceStartTimeMetrics" -> {"unitStartTimeDesc"}
      [] collector = "collectServiceRestartCount" -> {"nRestartsDesc"}
      [] collector = "collectServiceTasksMetrics" ->
            {"unitTasksCurrentDesc", "unitTasksMaxDesc"}
      [] collector = "collectServiceProcessMetrics" ->
            {"cpuTotalDesc", "vsize", "rss", "maxFDs", "maxVsize", "openFDs"}
      [] collector = "collectTimerTriggerTime" -> {"timerLastTriggerDesc"}
      [] collector = "collectSocketConnMetrics" ->
            {"socketAcceptedConnectionsDesc", "socketCurrentConnectionsDesc",
             "socketRefusedConnectionsDesc"}
      [] collector = "collectUnitCPUMetrics" -> {"unitCPUTotal"}
      [] collector = "collectUnitMemMetrics" -> AccountingDescs \ {"unitCPUTotal"}
      [] OTHER -> {}

\* C17: the calls a unit's task has made are always the first calls of the list
\* its type stands for, with or without the accounting collectors, and when
\* collectUnit returns they are the whole list, the accounting collectors being
\* in it exactly when the resolver gave a path; each call sends samples of its
\* own descriptors only, the unit-state call always five, so a unit of another
\* type gets its five unit_state samples and nothing else.
C17_DispatchByType ==
    /\ \A i \in 1..Len(task) :
          /\ \/ IsPrefix(task[i].invoked, CallsOf(task[i].unit, TRUE))
             \/ IsPrefix(task[i].invoked, CallsOf(task[i].unit, FALSE))
          /\ task[i].pc # "unstarted" /\ task[i].pc # "collectUnitState" /\ task[i].pc # "done"
                => task[i].invoked # <<>>
          /\ task[i].pc = "return" =>
                task[i].invoked = CallsOf(task[i].unit, task[i].cgroupPath.present)
    /\ last # NoCall =>
          /\ \A k \in 1..Len(sink) : sink[k].desc \in DescsOf(last.collector)
          /\ last.collector = "collectUnitState" => Len(sink) = 5

\* a service named dev.mount.service with the restart count off has returned
\* without the restart-count call and without the mount collector
C17_Witness ==
    /\ Len(task) = 1
    /\ task[1].pc = "return"
    /\ task[1].unit.Name = <<"dev", Dot, "mount", Dot, "service">>
    /\ ~cfg.enableRestartsMetrics
    /\ task[1].cgroupPath.present
    /\ task[1].invoked = <<"collectUnitState", "getControlGroup", "collectUnitCPUMetrics",
                           "collectUnitMemMetrics", "collectServiceMetainfo",
                           "collectServiceStartTimeMetrics", "collectServiceTasksMetrics",
                           "collectServiceProcessMetrics">>

\* n microseconds as seconds
Seconds(n) == [num |-> n, den |-> 1000000]

\* C18: for a service that is not active the start-time collector sends one
\* unit_start_time_seconds sample of value 0 and returns no error, whatever the
\* bus holds and also when the bus answers nothing; for an active service it
\* sends ActiveEnterTimestamp as seconds when the property is a uint64, and
\* sends nothing and returns an error otherwise.
C18_StartTime ==
    last.collector = "collectServiceStartTimeMetrics" =>
       LET unit == LastUnit
           r == LastRead("Unit", "ActiveEnterTimestamp")
           one(n) == <<Sample("unitStartTimeDesc", Seconds(n), <<unit.Name, TypeOf(unit)>>)>>
       IN  /\ unit.ActiveState # "active" =>
                 last.out.samples = one(0) /\ last.out.err = Nil
           /\ (unit.ActiveState = "active" /\ ~r.err /\ r.val.type = "uint64") =>
                 last.out.samples = one(r.val.n) /\ last.out.err = Nil
           /\ (unit.ActiveState = "active" /\ (r.err \/ r.val.type # "uint64")) =>
                 last.out.samples = <<>> /\ last.out.err # Nil
           /\ sink = last.out.samples

\* an inactive service on a bus that answers nothing gets its sample of 0
C18_Witness ==
    /\ last.collector = "collectServiceStartTimeMetrics"
    /\ LastUnit.ActiveState = "inactive"
    /\ LastRead("Unit", "ActiveEnterTimestamp") = Fail
    /\ Len(sink) = 1
    /\ sink[1].value = Seconds(0)
    /\ last.out.err = Nil

\* the descriptors of a batch, in order
Descs(samples) == [k \in 1..Len(samples) |-> samples[k].desc]

\* C19: with MainPID read as the uint32 zero the process collector sends
\* nothing and returns no error, and the process information plays no part.
\* With a pid that is not zero the samples other than process_open_fds are the
\* same with the file-descriptor flag on and off, all five of them when the
\* process information is readable, and process_open_fds is sent only with the
\* flag on, and then whenever the count is readable.
C19_ProcessMetrics ==
    ( /\ last.collector = "collectServiceProcessMetrics"
      /\ LastRead("Service", "MainPID").err = FALSE
      /\ LastRead("Service", "MainPID").val.type = "uint32" )
    => LET pid == LastRead("Service", "MainPID").val.n
           procfs == last.env.procfs
           samples == last.out.samples
           NotFDs(s) == SelectSeq(s, LAMBDA x : x.desc # "openFDs")
       IN  /\ pid = 0 =>
                 /\ samples = <<>>
                 /\ last.out.err = Nil
                 /\ \A p \in ProcViews :
                       collectServiceProcessMetrics(LastUnit, last.env.bus, p,
                                                    cfg.enableFDMetrics) = last.out
           /\ pid # 0 =>
                 /\ NotFDs(samples) =
                       NotFDs(collectServiceProcessMetrics(LastUnit, last.env.bus, procfs,
                                                           ~cfg.enableFDMetrics).samples)
                 /\ procfs.fails \in {"ok", "FileDescriptorsLen"} =>
                       Descs(NotFDs(samples)) =
                          <<"cpuTotalDesc", "vsize", "rss", "maxFDs", "maxVsize">>
                 /\ (\E k \in 1..Len(samples) : samples[k].desc = "openFDs")
                       <=> cfg.enableFDMetrics /\ procfs.fails = "ok"

\* a running main process with the flag off: five samples, none of open files
C19_Witness ==
    /\ last.collector = "collectServiceProcessMetrics"
    /\ LastRead("Service", "MainPID") = Ok(U32(7))
    /\ ~cfg.enableFDMetrics
    /\ last.env.procfs.fails = "ok"
    /\ Descs(last.out.samples) = <<"cpuTotalDesc", "vsize", "rss", "maxFDs", "maxVsize">>
    /\ last.out.err = Nil

NoneBlocked == \A i \in 1..Len(task) : task[i].pc # "blocked"

\* C20: a cycle in which no call hangs finishes in the end, and a cycle with a
\* task in a call that hangs has not returned and never will, whatever the other
\* tasks have done.
C20_CycleTermination ==
    /\ ([]NoneBlocked) => ((pc \in {"ListUnits", "go", "Wait"}) ~> (pc = "finished"))
    /\ [](~NoneBlocked => [](pc \notin {"collectReturned", "finished"}))

\* every read has returned and every sample was accepted, a socket task has
\* panicked, and collect() is where it was
C20_Witness ==
    /\ NoneBlocked
    /\ proc = "crashed"
    /\ pc \in {"go", "Wait"}
    /\ \E i \in 1..Len(task) :
          task[i].pc = "panicked" /\ parseUnitType(task[i].unit) = "socket"


\* the descriptors Describe sends on its channel, in the order of the sends
Describe ==
    << "unitState", "unitInfo", "unitStartTimeDesc", "unitTasksCurrentDesc",
       "unitTasksMaxDesc", "nRestartsDesc", "timerLastTriggerDesc",
       "socketAcceptedConnectionsDesc", "socketCurrentConnectionsDesc",
       "socketRefusedConnectionsDesc", "cpuTotalDesc", "openFDs", "maxFDs",
       "vsize", "maxVsize", "rss" >>

Described == { Describe[k] : k \in 1..Len(Describe) }

\* C21: every sample a collector sends carries a descriptor that Describe has
\* announced, unit_cpu_seconds_total and the five unit_*_bytes memory metrics
\* included.
C21_SamplesAreDescribed ==
    \A k \in 1..Len(sink) : sink[k].desc \in Described

\* the CPU accounting collector has sent its user and system samples, and the
\* memory accounting collector its five samples
C21_Witness ==
    \/ /\ last.collector = "collectUnitCPUMetrics"
       /\ Len(SamplesOf(sink, "unitCPUTotal")) = 2
    \/ /\ last.collector = "collectUnitMemMetrics"
       /\ Len(sink) = 5
       /\ \A k \in 1..Len(sink) : sink[k].desc \in AccountingDescs \ {"unitCPUTotal"}

====
